---- MODULE Spec2Model ----
(***************************************************************************)
(* A model of Compiler (lib/Compiler.js of webpack 4, kept in this         *)
(* repository as src/unnamed/part_001): the run()/watch() entry points,    *)
(* the concurrency guard, the asynchronous stage pipeline of one build,    *)
(* record persistence and asset emission.                                  *)
(*                                                                         *)
(* Every asynchronous operation the Compiler starts (a hook's callAsync, a *)
(* filesystem call) is one "in flight" position; the action that completes *)
(* it runs the callback the code passed, including everything that         *)
(* callback does synchronously, up to the next asynchronous operation.     *)
(* Strings the code inspects character by character (paths, asset names)   *)
(* are sequences of one-character strings.                                 *)
(***************************************************************************)
EXTENDS Integers, Sequences, FiniteSets, TLC

(* ------------------------------ bounds -------------------------------- *)

\* run() and watch() calls in one behaviour
MaxCalls == 2
\* additional passes the needAdditionalPass hook may request in one run
MaxPasses == 1
\* modification times a timestamp table may hold
MaxTime == 1
\* taps plugins register on the hooks of the parent Compiler
MaxTaps == 3
\* child compilers one build spawns
MaxSpawns == 2
\* additional passes needAdditionalPass may request of a run that goes round
MaxLoop == 3

(* --------------------------- string helpers --------------------------- *)

\* String.prototype.indexOf(c): 0-based, -1 when absent
IndexOf(s, c) ==
    IF \E i \in 1..Len(s) : s[i] = c
    THEN (CHOOSE i \in 1..Len(s) : s[i] = c /\ \A j \in 1..(i - 1) : s[j] # c) - 1
    ELSE -1

\* String.prototype.lastIndexOf(c): 0-based, -1 when absent
LastIndexOf(s, c) ==
    IF \E i \in 1..Len(s) : s[i] = c
    THEN (CHOOSE i \in 1..Len(s) : s[i] = c /\ \A j \in (i + 1)..Len(s) : s[j] # c) - 1
    ELSE -1

\* String.prototype.substr(start, length)
Substr(s, start, length) == SubSeq(s, start + 1, start + length)

\* targetFile.match(/\/|\\/): the name holds a slash or a backslash
HasSeparator(s) == \E i \in 1..Len(s) : s[i] \in {"/", "\\"}

\* path.dirname on a relative posix path without trailing slash
Dirname(s) ==
    LET idx == LastIndexOf(s, "/")
    IN  IF idx = -1 THEN <<".">>
        ELSE IF idx = 0 THEN <<"/">>
        ELSE Substr(s, 0, idx)

\* outputFileSystem.join(a, b)
Join(a, b) == a \o <<"/">> \o b

(* ----------------------------- constants ------------------------------ *)

\* null / undefined / "" for a path
NoPath == <<>>
\* compiler.outputPath, as compilation.getPath resolves it
OutputPath == <<"/", "o">>
\* the values options may give recordsInputPath and recordsOutputPath
RecordsInputPaths == {NoPath, <<"/", "i", "/", "r">>}
RecordsOutputPaths == {NoPath, <<"/", "o", "/", "r">>}
\* the asset names seal may produce
AssetNames == {<<"d", "/", "a">>, <<"b">>}
\* the keys compilation.seal may leave in compilation.assets, in the order in
\* which it inserted them
SealOutputs == {<<>>, <<<<"d", "/", "a">>, <<"b">>>>}
\* the taps plugins registered on hooks.make
MakeTaps == {"m1", "m2"}
\* the paths a timestamp table may hold
WatchedPaths == {"f"}
\* Map<string, number>: a table is a function from some paths to times
Tables == UNION {[P -> 1..MaxTime] : P \in SUBSET WatchedPaths}
\* new Map()
EmptyMap == <<>>

(* ------------------------------ values -------------------------------- *)

Err(stage, message) == [error |-> stage, message |-> message]
\* err === null / undefined
NoError == Err("none", <<>>)
\* new ConcurrentCompilationError()
ConcurrentCompilationError ==
    Err("ConcurrentCompilationError",
        <<"You ran Webpack twice. Each instance only supports a single concurrent compilation at a time.">>)
\* the error a failing hook tap or filesystem call of a stage reports
StageError(stage) == Err(stage, <<stage>>)

\* stats === undefined
NoStats == [compilation |-> 0, startTime |-> "unset", endTime |-> "unset"]
\* new Stats(compilation); stats.startTime = startTime; stats.endTime = Date.now()
NewStats(compilation) ==
    [compilation |-> compilation.id, startTime |-> "startTime", endTime |-> "now"]

\* the source object compilation.assets holds under a name: the one the
\* compilation of Compiler owner (0 the parent, k its k-th child) produced
Source(owner, file) == [owner |-> owner, file |-> file]
\* compilation.assets with no asset
NoSources == [file \in {} |-> Source(0, file)]

\* the names a list of keys holds
NamesIn(keys) == {keys[n] : n \in DOMAIN keys}

\* the lists of keys an object may have whose keys are among names: every
\* subset in every order of insertion
KeyOrders(names) ==
    UNION {{keys \in [1..Cardinality(S) -> S] : NamesIn(keys) = S} : S \in SUBSET names}

\* a Compilation: assets are the names in compilation.assets, keys these names
\* in the order of their insertion (Object.keys) and sources the objects
\* under them where child compilers are run, children is compilation.children
NoCompilation ==
    [id |-> 0, assets |-> {}, keys |-> <<>>, needAdditionalPass |-> FALSE,
     children |-> <<>>, sources |-> NoSources]

\* one entry of a build's history: an operation the build started
Ev(op, arg) == [op |-> op, arg |-> arg]

(* ------------------------------ records ------------------------------- *)

\* the names child compilers are spawned under
ChildNames == {"m"}
\* a record store: for every child name, whether the key is present and the
\* list of per-spawn blobs under it (a blob is the set of keys a child wrote)
EmptyRecords == [n \in ChildNames |-> [present |-> FALSE, list |-> <<>>]]
\* a store with one empty blob under "m", as an earlier build leaves it
OneChildRecords == [n \in ChildNames |-> [present |-> TRUE, list |-> <<{}>>]]
\* the stores a records file may hold
KnownRecords == {EmptyRecords, OneChildRecords}

\* one line of text: indentation and what follows it
Line(indent, text) == [indent |-> indent, text |-> text]

\* the keys a child compiler may write into its blob
RecordKeys == {"k"}

\* the lines JSON.stringify(blobs, undefined, 2) gives the elements of a list
RECURSIVE BlobLines(_, _)
BlobLines(list, k) ==
    IF k > Len(list) THEN <<>>
    ELSE (IF list[k] = {}
          THEN <<Line(4, IF k < Len(list) THEN "{}," ELSE "{}")>>
          ELSE <<Line(4, "{"), Line(6, "\"k\": 1"),
                 Line(4, IF k < Len(list) THEN "}," ELSE "}")>>)
         \o BlobLines(list, k + 1)

\* JSON.stringify(records, undefined, 2)
Stringify(r) ==
    IF \A n \in ChildNames : ~r[n].present THEN <<Line(0, "{}")>>
    ELSE <<Line(0, "{")>>
         \o (IF r["m"].list = <<>> THEN <<Line(2, "\"m\": []")>>
             ELSE <<Line(2, "\"m\": [")>> \o BlobLines(r["m"].list, 1) \o <<Line(2, "]")>>)
         \o <<Line(0, "}")>>

\* what a records file may contain: serialized stores, or text that is no JSON
Garbage == <<Line(0, "{")>>
FileContents == {Stringify(r) : r \in KnownRecords} \cup {Garbage}

\* parseJson(content.toString("utf-8")): the store, or a thrown SyntaxError,
\* whose message is that of JSON.parse with the text parsed appended to it
ParseJson(content) ==
    IF \E r \in KnownRecords : Stringify(r) = content
    THEN [threw |-> FALSE, value |-> CHOOSE r \in KnownRecords : Stringify(r) = content,
          message |-> <<>>]
    ELSE [threw |-> TRUE, value |-> EmptyRecords,
          message |-> <<"Expected property name or '}' in JSON at position 1 while parsing '{'">>]

(* --------------------------- hooks and objects ------------------------ *)

\* the hooks the constructor creates
HookNames ==
    {"shouldEmit", "done", "additionalPass", "beforeRun", "run", "emit", "afterEmit",
     "thisCompilation", "compilation", "normalModuleFactory", "contextModuleFactory",
     "beforeCompile", "compile", "make", "afterCompile", "watchRun", "failed",
     "invalid", "watchClose", "environment", "afterEnvironment", "afterPlugins",
     "afterResolvers", "entryOption"}

\* every hook with an empty taps array
NoTaps == [name \in HookNames |-> <<>>]

\* the tap object a tap() call creates: on the Compiler owner (0 the parent, k
\* its k-th child), for hook name, the n-th one a plugin registered there
TapOf(owner, name, n, plugin) == [owner |-> owner, hook |-> name, n |-> n, by |-> plugin]

\* an object by the Compiler whose constructor or caller created it (0 the
\* parent, k its k-th child) and the field it was created for
Ref(owner, field) == [owner |-> owner, field |-> field]
Null == Ref(0, "null")

\* the keys and values of options.output
EmptyObject == [key \in {} |-> ""]
\* options as webpack() hands them to the Compiler: output with its own keys
WebpackOptions == [output |-> [path |-> "o", filename |-> "main"]]
\* the outputOptions a caller of createChildCompiler may pass
OutputOptionSets == {EmptyObject, [filename |-> "child", library |-> "lib"]}

\* the plugins a caller of createChildCompiler may pass, and the hooks the
\* apply method of each taps
PluginLists == {<<>>, <<"p">>}
PluginHooks(plugin) == <<"make", "afterCompile">>

\* the hooks plugins tap on the parent Compiler
TappedHooks == {"make", "afterCompile"}

\* the names and indices child compilers are spawned with
CompilerNames == ChildNames
CompilerIndices == {0, 1}

(* ------------------------------- state -------------------------------- *)

VARIABLES
    running,            \* compiler.running
    fileTimestamps,     \* compiler.fileTimestamps
    contextTimestamps,  \* compiler.contextTimestamps
    records,            \* compiler.records
    recordsInputPath,   \* compiler.recordsInputPath
    recordsOutputPath,  \* compiler.recordsOutputPath
    builds,             \* the run() calls that passed the guard: their closures
    watchings,          \* the Watching handles watch() created
    rejected,           \* the last call the guard rejected and what it called back
    existsAt,           \* source.existsAt of every asset's source object
    emitted,            \* source.emitted of every asset's source object
    disk,               \* the files of the output filesystem
    before,             \* the Compiler as the last run() or watch() call found it
    calls,              \* run() and watch() calls so far
    hooks,              \* compiler.hooks[name].taps of every hook
    options             \* compiler.options

vars == <<running, fileTimestamps, contextTimestamps, records, recordsInputPath,
          recordsOutputPath, builds, watchings, rejected, existsAt, emitted, disk,
          before, calls, hooks, options>>

\* the mutable state as one value, for the operators that compute a step
State ==
    [running |-> running, fileTimestamps |-> fileTimestamps,
     contextTimestamps |-> contextTimestamps, records |-> records,
     builds |-> builds, watchings |-> watchings, rejected |-> rejected,
     existsAt |-> existsAt, emitted |-> emitted, disk |-> disk, before |-> before,
     calls |-> calls, hooks |-> hooks, options |-> options]

Apply(s) ==
    /\ running' = s.running
    /\ fileTimestamps' = s.fileTimestamps
    /\ contextTimestamps' = s.contextTimestamps
    /\ records' = s.records
    /\ builds' = s.builds
    /\ watchings' = s.watchings
    /\ rejected' = s.rejected
    /\ existsAt' = s.existsAt
    /\ emitted' = s.emitted
    /\ disk' = s.disk
    /\ before' = s.before
    /\ calls' = s.calls
    /\ hooks' = s.hooks
    /\ options' = s.options
    /\ UNCHANGED <<recordsInputPath, recordsOutputPath>>

\* no file at a path
NoFile == <<>>

\* no run() or watch() call yet
NoCall == [op |-> "none", running |-> FALSE, fileTimestamps |-> EmptyMap,
           contextTimestamps |-> EmptyMap]

NoResult == [called |-> FALSE, err |-> NoError, stats |-> NoStats, running |-> FALSE]

\* the closure of a run() call that passed the guard, and what is noted of
\* its history: the operations it started (trace), the Stats it gave the done
\* hook (doneCalls), how often and with what it called back (cbCount, result),
\* the first error an operation reported to it (failure) and the compilation
\* shouldEmit vetoed (vetoed); retired once that history is dropped; children
\* are the child compilers its compilations spawned, inherited the records
\* run() found where that is noted, dispatch the taps its hooks invoked and
\* returned what hooks.shouldEmit.call gave, where those are noted
NewBuild ==
    [pc |-> "start", passes |-> 0, compilation |-> NoCompilation, pending |-> {},
     trace |-> <<>>, doneCalls |-> <<>>, writing |-> NoFile, result |-> NoResult,
     cbCount |-> 0, failure |-> NoError, vetoed |-> 0, retired |-> FALSE,
     children |-> <<>>, inherited |-> EmptyRecords, dispatch |-> <<>>,
     returned |-> "none"]

Init ==
    /\ running = FALSE
    /\ fileTimestamps = EmptyMap
    /\ contextTimestamps = EmptyMap
    /\ records = EmptyRecords
    /\ recordsInputPath \in RecordsInputPaths
    /\ recordsOutputPath \in RecordsOutputPaths
    /\ builds = <<>>
    /\ watchings = <<>>
    /\ rejected = [op |-> "none", err |-> NoError]
    /\ existsAt = [n \in AssetNames |-> NoPath]
    /\ emitted = [n \in AssetNames |-> "undefined"]
    /\ disk = [p \in {} |-> NoFile]
    /\ before = NoCall
    /\ calls = 0
    /\ hooks = NoTaps
    /\ options = WebpackOptions

(* ------------------------ the steps of one build ---------------------- *)
(* Each operator takes the state s and the index i of a build and gives    *)
(* the state after the code it names has run to its next asynchronous call. *)

\* note that build b starts an operation; nothing more is noted of a build
\* whose history was dropped
Log(b, op, arg) == IF b.retired THEN b ELSE [b EXCEPT !.trace = Append(@, Ev(op, arg))]

\* an asynchronous operation started for several items at once (a make tap,
\* an asset's mkdirp or writeFile); live is FALSE once the join it reports
\* to has already called back, so that its own callback is ignored
Op(live, kind, name, path) == [live |-> live, kind |-> kind, name |-> name, path |-> path]

LiveOps(b, kinds) == {o \in b.pending : o.live /\ o.kind \in kinds}

\* the join called back with an error: what is still in flight runs on, unheard
Deafen(b, kinds) ==
    [b EXCEPT !.pending = {IF o.kind \in kinds THEN [o EXCEPT !.live = FALSE] ELSE o :
                            o \in @}]

\* finalCallback(err, stats) with running reset after the callback instead of before
finalCallbackLate(s, i, err, stats) ==
    [s EXCEPT !.running = FALSE,
              !.builds[i] = [Log(@, "callback", <<>>) EXCEPT
                  !.pc = "finished",
                  !.result = [called |-> TRUE, err |-> err, stats |-> stats,
                              running |-> s.running],
                  !.cbCount = @ + 1]]

\* finalCallback: running = false, then callback(err, stats)
finalCallback(s, i, err, stats) ==
    LET s1 == [s EXCEPT !.running = FALSE]
    IN  [s1 EXCEPT !.builds[i] = [Log(@, "callback", <<>>) EXCEPT
                  !.pc = "finished",
                  !.result = [called |-> TRUE, err |-> err, stats |-> stats,
                              running |-> s1.running],
                  !.cbCount = @ + 1]]

\* this.hooks.done.callAsync(stats, ...) at one of its three call sites
callDone(s, i, pc) ==
    LET stats == NewStats(s.builds[i].compilation)
    IN  [s EXCEPT !.builds[i] = [Log(@, "done", <<>>) EXCEPT
                  !.pc = pc, !.doneCalls = Append(@, stats)]]

\* compile(callback) up to beforeCompile.callAsync
compile(s, i) ==
    [s EXCEPT !.builds[i] =
        [Log(Log(Log(@, "normalModuleFactory", <<>>), "contextModuleFactory", <<>>),
             "beforeCompile", <<>>) EXCEPT !.pc = "beforeCompile"]]

\* emitRecords(callback) without the test of recordsOutputPath
emitRecordsAlways(s, i) ==
    LET idx1 == LastIndexOf(recordsOutputPath, "/")
        idx2 == LastIndexOf(recordsOutputPath, "\\")
        recordsOutputPathDirectory ==
            IF idx1 > idx2 THEN Substr(recordsOutputPath, 0, idx1)
            ELSE IF idx1 < idx2 THEN Substr(recordsOutputPath, 0, idx2)
            ELSE NoPath
    IN  IF recordsOutputPathDirectory = NoPath
        THEN [s EXCEPT !.builds[i] =
                 [Log(@, "recordsWriteFile", recordsOutputPath) EXCEPT
                     !.pc = "recordsWriteFile", !.writing = Stringify(s.records)]]
        ELSE [s EXCEPT !.builds[i] =
                 [Log(@, "recordsMkdirp", recordsOutputPathDirectory) EXCEPT
                     !.pc = "recordsMkdirp"]]

\* emitRecords(callback) up to its first filesystem call; with no output path
\* it calls back at once, and the callback of run() goes on to the done hook
emitRecords(s, i) ==
    IF recordsOutputPath = NoPath THEN callDone(s, i, "done")
    ELSE
        LET idx1 == LastIndexOf(recordsOutputPath, "/")
            idx2 == LastIndexOf(recordsOutputPath, "\\")
            recordsOutputPathDirectory ==
                IF idx1 > idx2 THEN Substr(recordsOutputPath, 0, idx1)
                ELSE IF idx1 < idx2 THEN Substr(recordsOutputPath, 0, idx2)
                ELSE NoPath
        IN  IF recordsOutputPathDirectory = NoPath
            THEN [s EXCEPT !.builds[i] =
                     [Log(@, "recordsWriteFile", recordsOutputPath) EXCEPT
                         !.pc = "recordsWriteFile", !.writing = Stringify(s.records)]]
            ELSE [s EXCEPT !.builds[i] =
                     [Log(@, "recordsMkdirp", recordsOutputPathDirectory) EXCEPT
                         !.pc = "recordsMkdirp"]]

\* the callback run() passes to emitAssets taking two additional passes at most
afterEmitAssetsCapped(s, i, err, needAdditionalPass) ==
    IF err # NoError THEN finalCallback(s, i, err, NoStats)
    ELSE
        LET s1 == [s EXCEPT !.builds[i] = Log(@, "needAdditionalPass", <<>>)]
        IN  IF needAdditionalPass /\ s.builds[i].passes < 2
            THEN callDone([s1 EXCEPT !.builds[i].compilation.needAdditionalPass = TRUE],
                          i, "donePass")
            ELSE LET s2 == [s1 EXCEPT !.builds[i] = Log(@, "emitRecords", <<>>)]
                 IN  emitRecords(s2, i)

\* the callback run() passes to emitAssets
afterEmitAssets(s, i, err, needAdditionalPass) ==
    IF err # NoError THEN finalCallback(s, i, err, NoStats)
    ELSE
        LET s1 == [s EXCEPT !.builds[i] = Log(@, "needAdditionalPass", <<>>)]
        IN  IF needAdditionalPass
            THEN callDone([s1 EXCEPT !.builds[i].compilation.needAdditionalPass = TRUE],
                          i, "donePass")
            ELSE LET s2 == [s1 EXCEPT !.builds[i] = Log(@, "emitRecords", <<>>)]
                 IN  emitRecords(s2, i)

\* emitAssets(compilation, callback) up to emit.callAsync
emitAssets(s, i) ==
    [s EXCEPT !.builds[i] = [Log(@, "emit", <<>>) EXCEPT !.pc = "emit"]]

\* onCompiled emitting whatever shouldEmit returns
onCompiledNoVeto(s, i, err, shouldEmit) ==
    IF err # NoError THEN finalCallback(s, i, err, NoStats)
    ELSE emitAssets([s EXCEPT !.builds[i] = Log(@, "shouldEmit", <<>>)], i)

\* onCompiled persisting the records before the done hook of a vetoed build
onCompiledPersisting(s, i, err, shouldEmit) ==
    IF err # NoError THEN finalCallback(s, i, err, NoStats)
    ELSE
        LET s1 == [s EXCEPT !.builds[i] = Log(@, "shouldEmit", <<>>)]
        IN  IF shouldEmit = "false"
            THEN emitRecords([s1 EXCEPT !.builds[i] = Log(@, "emitRecords", <<>>)], i)
            ELSE emitAssets(s1, i)

\* onCompiled(err, compilation); shouldEmit is what hooks.shouldEmit.call returns
onCompiled(s, i, err, shouldEmit) ==
    IF err # NoError THEN finalCallback(s, i, err, NoStats)
    ELSE
        LET s1 == [s EXCEPT !.builds[i] = Log(@, "shouldEmit", <<>>)]
        IN  IF shouldEmit = "false" THEN callDone(s1, i, "doneVeto")
            ELSE emitAssets(s1, i)

(* --------------------------- asset emission --------------------------- *)

\* the asset's name up to its first "?"
TargetFile(file) ==
    LET queryStringIdx == IndexOf(file, "?")
    IN  IF queryStringIdx >= 0 THEN Substr(file, 0, queryStringIdx) ELSE file

\* Buffer.from(source.source(), "utf8") of the asset's source object
Content(file) == <<[source |-> file]>>

\* this.hooks.afterEmit.callAsync as soon as one iterator has called back
afterAssetsEarly(s, i) ==
    [s EXCEPT !.builds[i] = [Log(@, "afterEmit", <<>>) EXCEPT !.pc = "afterEmit"]]

\* this.hooks.afterEmit.callAsync, once every asset's iterator has called back
afterAssets(s, i) ==
    IF LiveOps(s.builds[i], {"assetMkdirp", "writeFile"}) = {}
    THEN [s EXCEPT !.builds[i] = [Log(@, "afterEmit", <<>>) EXCEPT !.pc = "afterEmit"]]
    ELSE s

\* writeOut with the existsAt test left out: the asset is always written
writeOutAlways(s, i, file, live) ==
    LET targetPath == Join(OutputPath, TargetFile(file))
    IN  [s EXCEPT !.existsAt[file] = targetPath,
                  !.emitted[file] = "true",
                  !.builds[i] = [Log(@, "writeFile", targetPath) EXCEPT
                      !.pending = @ \cup {Op(live, "writeFile", file, targetPath)}]]

\* writeOut() without error: skip the asset that exists at the target, or
\* start its writeFile
writeOut(s, i, file, live) ==
    LET targetPath == Join(OutputPath, TargetFile(file))
    IN  IF s.existsAt[file] = targetPath
        THEN [s EXCEPT !.emitted[file] = "false"]
        ELSE [s EXCEPT !.existsAt[file] = targetPath,
                       !.emitted[file] = "true",
                       !.builds[i] = [Log(@, "writeFile", targetPath) EXCEPT
                           !.pending = @ \cup {Op(live, "writeFile", file, targetPath)}]]

\* the iterator asyncLib.forEach runs for one asset
emitFile(s, i, file) ==
    LET targetFile == TargetFile(file)
    IN  IF HasSeparator(targetFile)
        THEN LET dir == Join(OutputPath, Dirname(targetFile))
             IN  [s EXCEPT !.builds[i] = [Log(@, "assetMkdirp", dir) EXCEPT
                     !.pending = @ \cup {Op(TRUE, "assetMkdirp", file, dir)}]]
        ELSE writeOut(s, i, file, TRUE)

\* asyncLib.forEach over compilation.assets: the iterator of every key is
\* started in turn, in the order of the keys; started is the state the k-th
\* iterator leaves when it returns
RECURSIVE forEachAsset(_, _, _, _)
forEachAsset(s, i, keys, k) ==
    IF k > Len(keys) THEN s
    ELSE CHOOSE r \in {forEachAsset(started, i, keys, k + 1) :
                           started \in {emitFile(s, i, keys[k])}} : TRUE

\* emitFiles(err): the callback of the output directory's mkdirp
emitFiles(s, i, err) ==
    IF err # NoError THEN afterEmitAssets(s, i, err, FALSE)
    ELSE afterAssets(forEachAsset([s EXCEPT !.builds[i].pc = "assets"], i,
                                   s.builds[i].compilation.keys, 1), i)

\* an asset's iterator called back with an error: forEach calls back once
\* with the first error, emitAssets hands it on
assetFailed(s, i, err) ==
    afterEmitAssets([s EXCEPT !.builds[i] = Deafen(@, {"assetMkdirp", "writeFile"})],
                    i, err, FALSE)

\* the callback of an asset directory's mkdirp (writeOut(err))
assetMkdirpDone(s, i, o, err) ==
    LET s1 == [s EXCEPT !.builds[i].pending = @ \ {o}]
    IN  IF err # NoError
        THEN IF o.live THEN assetFailed(s1, i, err) ELSE s1
        ELSE LET s2 == writeOut(s1, i, o.name, o.live)
             IN  IF o.live THEN afterAssets(s2, i) ELSE s2

\* the callback of an asset's writeFile
assetWriteDone(s, i, o, err) ==
    LET s1 == [s EXCEPT !.builds[i].pending = @ \ {o}]
    IN  IF err # NoError
        THEN IF o.live THEN assetFailed(s1, i, err) ELSE s1
        ELSE LET s2 == [s1 EXCEPT !.disk = (o.path :> Content(o.name)) @@ @]
             IN  IF o.live THEN afterAssets(s2, i) ELSE s2

(* ------------------------------ compile ------------------------------- *)

\* the callback of beforeCompile: the compile hook, newCompilation (a fresh
\* Compilation, thisCompilation, compilation), then make.callAsync, which
\* starts every make tap
beforeCompileDone(s, i, err) ==
    IF err # NoError THEN onCompiled(s, i, err, "undefined")
    ELSE
        LET b == s.builds[i]
            b1 == Log(Log(Log(Log(b, "compile", <<>>), "thisCompilation", <<>>),
                          "compilation", <<>>), "make", <<>>)
        IN  [s EXCEPT !.builds[i] = [b1 EXCEPT
                !.pc = "make",
                !.compilation = [NoCompilation EXCEPT !.id = b.passes + 1],
                !.pending = @ \cup {Op(TRUE, "make", <<t>>, NoPath) : t \in MakeTaps}]]

\* a make tap called back, the first error cancelling the taps still at work
makeTapDoneCancelling(s, i, o, err) ==
    LET s1 == [s EXCEPT !.builds[i].pending = @ \ {o}]
    IN  IF ~o.live THEN s1
        ELSE IF err # NoError
        THEN onCompiled([s1 EXCEPT !.builds[i].pending = {q \in @ : q.kind # "make"}],
                        i, err, "undefined")
        ELSE IF LiveOps(s1.builds[i], {"make"}) # {} THEN s1
        ELSE [s1 EXCEPT !.builds[i] =
                 [Log(Log(@, "finish", <<>>), "seal", <<>>) EXCEPT !.pc = "seal"]]

\* a make tap called back: the hook calls back at once with the first error,
\* after which the callbacks of the taps still at work are ignored, and the
\* last success goes on to compilation.finish() and compilation.seal(...)
makeTapDone(s, i, o, err) ==
    LET s1 == [s EXCEPT !.builds[i].pending = @ \ {o}]
    IN  IF ~o.live THEN s1
        ELSE IF err # NoError
        THEN onCompiled([s1 EXCEPT !.builds[i] = Deafen(@, {"make"})], i, err, "undefined")
        ELSE IF LiveOps(s1.builds[i], {"make"}) # {} THEN s1
        ELSE [s1 EXCEPT !.builds[i] =
                 [Log(Log(@, "finish", <<>>), "seal", <<>>) EXCEPT !.pc = "seal"]]

\* the callback of compilation.seal going on whatever seal reported
sealDoneIgnoring(s, i, err, assets) ==
    [s EXCEPT !.builds[i] = [Log(@, "afterCompile", <<>>) EXCEPT
        !.pc = "afterCompile", !.compilation.assets = NamesIn(assets),
        !.compilation.keys = assets]]

\* the callback of compilation.seal; assets are the keys seal left in
\* compilation.assets, in the order of their insertion
sealDone(s, i, err, assets) ==
    IF err # NoError THEN onCompiled(s, i, err, "undefined")
    ELSE [s EXCEPT !.builds[i] = [Log(@, "afterCompile", <<>>) EXCEPT
             !.pc = "afterCompile", !.compilation.assets = NamesIn(assets),
             !.compilation.keys = assets]]

(* --------------------------- reading records -------------------------- *)

\* readRecords(callback) leaving the records as they are when no
\* recordsInputPath is configured
readRecordsKeeping(s, i) ==
    LET s1 == [s EXCEPT !.builds[i] = Log(@, "readRecords", <<>>)]
    IN  IF recordsInputPath = NoPath
        THEN compile(s1, i)
        ELSE [s1 EXCEPT !.builds[i] = [Log(@, "stat", recordsInputPath) EXCEPT !.pc = "stat"]]

\* readRecords(callback) up to its first filesystem call; run()'s callback
\* goes on to compile
readRecords(s, i) ==
    LET s1 == [s EXCEPT !.builds[i] = Log(@, "readRecords", <<>>)]
    IN  IF recordsInputPath = NoPath
        THEN compile([s1 EXCEPT !.records = EmptyRecords], i)
        ELSE [s1 EXCEPT !.builds[i] = [Log(@, "stat", recordsInputPath) EXCEPT !.pc = "stat"]]

\* the callback of inputFileSystem.stat
statDone(s, i, err) ==
    IF err # NoError THEN compile(s, i)
    ELSE [s EXCEPT !.builds[i] = [Log(@, "readFile", recordsInputPath) EXCEPT
             !.pc = "readFile"]]

\* the callback of inputFileSystem.readFile with records cleared before the
\* content is parsed
readFileDoneClearing(s, i, err, content) ==
    IF err # NoError THEN finalCallback(s, i, err, NoStats)
    ELSE
        LET parsed == ParseJson(content)
            s1 == [s EXCEPT !.records = EmptyRecords]
        IN  IF parsed.threw
            THEN finalCallback(s1, i,
                     Err("parseJson", <<"Cannot parse records: ">> \o parsed.message),
                     NoStats)
            ELSE compile([s1 EXCEPT !.records = parsed.value], i)

\* the callback of inputFileSystem.readFile
readFileDone(s, i, err, content) ==
    IF err # NoError THEN finalCallback(s, i, err, NoStats)
    ELSE
        LET parsed == ParseJson(content)
        IN  IF parsed.threw
            THEN finalCallback(s, i,
                     Err("parseJson", <<"Cannot parse records: ">> \o parsed.message),
                     NoStats)
            ELSE compile([s EXCEPT !.records = parsed.value], i)

(* --------------------------- child compilers -------------------------- *)
(* A child is a record of the fields createChildCompiler leaves in the     *)
(* Compiler it returns. A field holding an object holds its Ref; the taps  *)
(* array of a hook is the child's own array (with its content) or the      *)
(* array of the parent; the records object is its own or the entry at      *)
(* position pos (from 0) of the list the parent's records hold under name.  *)

\* hook.tap(...): the tap is put at the end of the hook's taps array
tap(taps, owner, name, plugin) == Append(taps, TapOf(owner, name, Len(taps) + 1, plugin))

\* new Compiler(context), as the k-th child of a build
NewCompiler(k) ==
    [hooks |-> [name \in HookNames |-> [array |-> k, taps |-> <<>>]],
     name |-> "undefined",
     index |-> -1,
     outputPath |-> NoPath,
     inputFileSystem |-> Null,
     outputFileSystem |-> Null,
     resolverFactory |-> Ref(k, "resolverFactory"),
     fileTimestamps |-> Ref(k, "fileTimestamps"),
     contextTimestamps |-> Ref(k, "contextTimestamps"),
     records |-> [linked |-> FALSE, name |-> "", pos |-> 0, own |-> {}],
     options |-> [object |-> Ref(k, "options"), proto |-> Null,
                  output |-> [object |-> Null, proto |-> Null, own |-> EmptyObject]],
     parentCompilation |-> 0,
     running |-> FALSE,
     pc |-> "created",
     trace |-> <<>>,
     compilation |-> NoCompilation,
     result |-> [called |-> FALSE, err |-> NoError],
     found |-> <<>>,
     given |-> EmptyObject,
     plugins |-> <<>>]

\* plugin.apply(childCompiler): the plugin taps its hooks on the child
RECURSIVE applyPlugin(_, _, _, _)
applyPlugin(child, k, plugin, h) ==
    IF h > Len(PluginHooks(plugin)) THEN child
    ELSE LET name == PluginHooks(plugin)[h]
         IN  applyPlugin([child EXCEPT !.hooks[name].taps = tap(@, k, name, plugin)],
                         k, plugin, h + 1)

\* for (const plugin of plugins) plugin.apply(childCompiler)
RECURSIVE applyPlugins(_, _, _, _)
applyPlugins(child, k, plugins, n) ==
    IF n > Len(plugins) THEN child
    ELSE applyPlugins(applyPlugin(child, k, plugins[n], 1), k, plugins, n + 1)

\* the hooks whose taps a child does not take over from its parent
NotInherited == {"make", "compile", "emit", "afterEmit", "invalid", "done", "thisCompilation"}

\* makePathsRelative(this.context, compilerName), for a name that holds no path
makePathsRelative(compilerName) == compilerName

\* the taps of hook name as a Compiler with these hooks sees them
TapsOf(s, child, name) ==
    IF child.hooks[name].array = 0 THEN s.hooks[name] ELSE child.hooks[name].taps

\* the content of the records object of a child
RecordsOf(s, child) ==
    IF child.records.linked
    THEN s.records[child.records.name].list[child.records.pos + 1]
    ELSE child.records.own

\* childCompiler.options.output[key], looked up along the prototypes
OutputOption(s, child, key) ==
    LET output == child.options.output
    IN  IF output.object = Ref(0, "options.output")
        THEN (IF key \in DOMAIN s.options.output THEN s.options.output[key] ELSE "undefined")
        ELSE IF key \in DOMAIN output.own THEN output.own[key]
        ELSE IF output.proto = Ref(0, "options.output") /\ key \in DOMAIN s.options.output
        THEN s.options.output[key]
        ELSE "undefined"

\* the taps arrays of the parent handed to the child as they are
inheritTapsShared(s, child, k) ==
    [child EXCEPT !.hooks = [name \in HookNames |->
        IF name \notin NotInherited
        THEN [array |-> 0, taps |-> <<>>]
        ELSE child.hooks[name]]]

\* for (const name in this.hooks): but for the hooks not inherited, the
\* child's taps become this.hooks[name].taps.slice()
inheritTaps(s, child, k) ==
    [child EXCEPT !.hooks = [name \in HookNames |->
        IF name \notin NotInherited
        THEN [array |-> k, taps |-> s.hooks[name]]
        ELSE child.hooks[name]]]

\* the records of the child: the entry at compilerIndex of the list under the
\* relative name, or a new object pushed to that list
linkRecords(list, relativeCompilerName, compilerIndex) ==
    [linked |-> TRUE, name |-> relativeCompilerName,
     pos |-> IF compilerIndex < Len(list) THEN compilerIndex ELSE Len(list),
     own |-> {}]

\* the output options written to the object options.output resolves to, with
\* no object of the child's own in between
layerOptionsShared(s, i, k, outputOptions) ==
    [s EXCEPT !.options.output =
                  [key \in DOMAIN outputOptions \cup DOMAIN @ |->
                      IF key \in DOMAIN outputOptions THEN outputOptions[key] ELSE @[key]],
              !.builds[i].children[k].options =
                  [object |-> Ref(k, "options"), proto |-> Ref(0, "options"),
                   output |-> [object |-> Ref(0, "options.output"), proto |-> Null,
                               own |-> EmptyObject]]]

\* childCompiler.options = Object.create(this.options); its output =
\* Object.create(childCompiler.options.output), with outputOptions as own keys
layerOptions(s, i, k, outputOptions) ==
    [s EXCEPT !.builds[i].children[k].options =
        [object |-> Ref(k, "options"), proto |-> Ref(0, "options"),
         output |-> [object |-> Ref(k, "options.output"),
                     proto |-> Ref(0, "options.output"),
                     own |-> outputOptions]]]

\* createChildCompiler(compilation, compilerName, compilerIndex, outputOptions,
\* plugins), called for the compilation of build i
createChildCompiler(s, i, compilerName, compilerIndex, outputOptions, plugins) ==
    LET k == Len(s.builds[i].children) + 1
        c1 == applyPlugins(NewCompiler(k), k, plugins, 1)
        c2 == inheritTaps(s, c1, k)
        c3 == [c2 EXCEPT !.name = compilerName,
                         !.index = compilerIndex,
                         !.outputPath = OutputPath,
                         !.inputFileSystem = Ref(0, "inputFileSystem"),
                         !.outputFileSystem = Null,
                         !.resolverFactory = Ref(0, "resolverFactory"),
                         !.fileTimestamps = Ref(0, "fileTimestamps"),
                         !.contextTimestamps = Ref(0, "contextTimestamps")]
        relativeCompilerName == makePathsRelative(compilerName)
        s1 == IF ~s.records[relativeCompilerName].present
              THEN [s EXCEPT !.records[relativeCompilerName] =
                                 [present |-> TRUE, list |-> <<>>]]
              ELSE s
        list == s1.records[relativeCompilerName].list
        s2 == IF compilerIndex < Len(list) THEN s1
              ELSE [s1 EXCEPT !.records[relativeCompilerName].list = Append(@, {})]
        c4 == [c3 EXCEPT !.records = linkRecords(list, relativeCompilerName, compilerIndex),
                         !.parentCompilation = s.builds[i].compilation.id]
        s3 == [s2 EXCEPT !.builds[i] = [Log(@, "childCompiler", <<>>) EXCEPT
                             !.children = Append(@, c4)]]
    IN  layerOptions(s3, i, k, outputOptions)

\* what the compilation of a child does with its records: it notes an
\* identifier under a key of its records object
childWrite(s, i, k, key) ==
    LET child == s.builds[i].children[k]
    IN  IF child.records.linked
        THEN [s EXCEPT !.records[child.records.name].list[child.records.pos + 1] =
                           @ \cup {key}]
        ELSE [s EXCEPT !.builds[i].children[k].records.own = @ \cup {key}]

\* the keys the assets of a child's compilation may have when compile calls
\* back
ChildOutputs == {<<>>, <<<<"b">>>>, <<<<"d", "/", "a">>, <<"b">>>>}

\* runAsChild(callback) of the k-th child of build i, up to this.compile(...)
runAsChild(s, i, k) ==
    [s EXCEPT !.builds[i].children[k] =
        [@ EXCEPT !.pc = "compile", !.trace = Append(@, Ev("compile", <<>>))]]

\* the Compilation compile hands its callback, holding assets under these keys
Compiled(k, assets) ==
    [NoCompilation EXCEPT !.id = 1, !.assets = NamesIn(assets), !.keys = assets,
                          !.sources = [file \in NamesIn(assets) |-> Source(k, file)]]

\* the keys of an object after each of the keys assigned was assigned to: a
\* key the object did not have is put at the end
Assigned(keys, assigned) ==
    keys \o SelectSeq(assigned, LAMBDA file : file \notin NamesIn(keys))

\* the callback runAsChild passes to compile, leaving an asset of the parent
\* compilation in place when the child has one of the same name
runAsChildDoneKeeping(s, i, k, err, assets) ==
    LET called == [s EXCEPT !.builds[i].children[k] =
                      [@ EXCEPT !.pc = "finished",
                                !.trace = Append(@, Ev("callback", <<>>)),
                                !.result = [called |-> TRUE, err |-> err]]]
    IN  IF err # NoError THEN called
        ELSE LET compilation == Compiled(k, assets)
             IN  [called EXCEPT
                     !.builds[i].children[k].compilation = compilation,
                     !.builds[i].compilation.children = Append(@, Ref(k, "compilation")),
                     !.builds[i].compilation.assets = @ \cup compilation.assets,
                     !.builds[i].compilation.keys = Assigned(@, compilation.keys),
                     !.builds[i].compilation.sources =
                         [file \in DOMAIN @ \cup compilation.assets |->
                             IF file \in DOMAIN @ THEN @[file]
                             ELSE compilation.sources[file]]]

\* the callback runAsChild passes to compile: an error goes to the callback;
\* else the compilation is pushed to parentCompilation.children, each of its
\* assets is assigned to parentCompilation.assets, and the callback is called
runAsChildDone(s, i, k, err, assets) ==
    LET called == [s EXCEPT !.builds[i].children[k] =
                      [@ EXCEPT !.pc = "finished",
                                !.trace = Append(@, Ev("callback", <<>>)),
                                !.result = [called |-> TRUE, err |-> err]]]
    IN  IF err # NoError THEN called
        ELSE LET compilation == Compiled(k, assets)
             IN  [called EXCEPT
                     !.builds[i].children[k].compilation = compilation,
                     !.builds[i].compilation.children = Append(@, Ref(k, "compilation")),
                     !.builds[i].compilation.assets = @ \cup compilation.assets,
                     !.builds[i].compilation.keys = Assigned(@, compilation.keys),
                     !.builds[i].compilation.sources =
                         [file \in DOMAIN @ \cup compilation.assets |->
                             IF file \in compilation.assets
                             THEN compilation.sources[file]
                             ELSE @[file]]]

(* ------------------------- the entry points --------------------------- *)

\* the closures still at work when a new call passes the guard: a build that
\* has not called back, or one whose unheard operations are still in flight
AtWork(b) == b.pc # "finished" \/ b.pending # {}

\* of a build that has called back only what is still in flight matters on
RECURSIVE Kept(_)
Kept(bs) ==
    IF bs = <<>> THEN <<>>
    ELSE LET b == Head(bs)
         IN  (IF ~AtWork(b) THEN <<>>
              ELSE IF b.pc = "finished"
              THEN <<[NewBuild EXCEPT !.pc = "finished", !.pending = b.pending,
                                      !.result = b.result, !.cbCount = b.cbCount,
                                      !.failure = b.failure, !.retired = TRUE]>>
              ELSE <<b>>) \o Kept(Tail(bs))

\* run(callback) with the guard left out
runUnguarded(s) ==
    [s EXCEPT !.running = TRUE,
              !.calls = @ + 1,
              !.builds = Append(Kept(@),
                                [Log(NewBuild, "beforeRun", <<>>) EXCEPT !.pc = "beforeRun"])]

\* run(callback) touching the timestamp tables before it tests the guard
runEager(s) ==
    IF s.running
    THEN [s EXCEPT !.calls = @ + 1,
                   !.rejected = [op |-> "run", err |-> ConcurrentCompilationError],
                   !.fileTimestamps = EmptyMap,
                   !.contextTimestamps = EmptyMap]
    ELSE [s EXCEPT !.running = TRUE,
                   !.calls = @ + 1,
                   !.builds = Append(Kept(@),
                                     [Log(NewBuild, "beforeRun", <<>>) EXCEPT
                                         !.pc = "beforeRun"])]

\* run(callback) up to beforeRun.callAsync
run(s) ==
    IF s.running
    THEN [s EXCEPT !.calls = @ + 1,
                   !.rejected = [op |-> "run", err |-> ConcurrentCompilationError]]
    ELSE [s EXCEPT !.running = TRUE,
                   !.calls = @ + 1,
                   !.builds = Append(Kept(@),
                                     [Log(NewBuild, "beforeRun", <<>>) EXCEPT
                                         !.pc = "beforeRun"])]

\* new Watching(compiler, ...): the handle, and compiler.running as its
\* constructor finds it
NewWatching(s) == [closed |-> FALSE, compilerRunning |-> s.running]
Open(w) == ~w.closed

\* Remove(seq, k): seq without its k-th element
Remove(seq, k) == SubSeq(seq, 1, k - 1) \o SubSeq(seq, k + 1, Len(seq))

\* watch(watchOptions, handler) keeping the timestamp tables
watchKeeping(s) ==
    IF s.running
    THEN [s EXCEPT !.calls = @ + 1,
                   !.rejected = [op |-> "watch", err |-> ConcurrentCompilationError]]
    ELSE LET s1 == [s EXCEPT !.running = TRUE]
         IN  [s1 EXCEPT !.calls = @ + 1,
                        !.builds = Kept(@),
                        !.watchings = Append(@, NewWatching(s1))]

\* watch(watchOptions, handler) setting running only after the handle is created
watchUnmarked(s) ==
    IF s.running
    THEN [s EXCEPT !.calls = @ + 1,
                   !.rejected = [op |-> "watch", err |-> ConcurrentCompilationError]]
    ELSE LET s1 == [s EXCEPT !.fileTimestamps = EmptyMap,
                             !.contextTimestamps = EmptyMap]
         IN  [s1 EXCEPT !.running = TRUE,
                        !.calls = @ + 1,
                        !.builds = Kept(@),
                        !.watchings = Append(@, NewWatching(s1))]

\* watch(watchOptions, handler)
watch(s) ==
    IF s.running
    THEN [s EXCEPT !.calls = @ + 1,
                   !.rejected = [op |-> "watch", err |-> ConcurrentCompilationError]]
    ELSE LET s1 == [s EXCEPT !.running = TRUE,
                             !.fileTimestamps = EmptyMap,
                             !.contextTimestamps = EmptyMap]
         IN  [s1 EXCEPT !.calls = @ + 1,
                        !.builds = Kept(@),
                        !.watchings = Append(@, NewWatching(s1))]

(* ------------------- the callbacks of the run pipeline ---------------- *)

\* what an asynchronous operation may call back with
Outcomes(op) == {NoError, StageError(op)}

\* the callback of beforeRun.callAsync going straight to readRecords
beforeRunDoneSkipping(s, i, err) ==
    IF err # NoError THEN finalCallback(s, i, err, NoStats)
    ELSE readRecords(s, i)

\* the callback of beforeRun.callAsync
beforeRunDone(s, i, err) ==
    IF err # NoError THEN finalCallback(s, i, err, NoStats)
    ELSE [s EXCEPT !.builds[i] = [Log(@, "run", <<>>) EXCEPT !.pc = "run"]]

\* the callback of run.callAsync
runHookDone(s, i, err) ==
    IF err # NoError THEN finalCallback(s, i, err, NoStats)
    ELSE readRecords(s, i)

\* the callback of emit.callAsync returning on an error without calling back
emitDoneSilent(s, i, err) ==
    IF err # NoError THEN [s EXCEPT !.builds[i].pc = "returned"]
    ELSE [s EXCEPT !.builds[i] = [Log(@, "mkdirp", OutputPath) EXCEPT !.pc = "mkdirp"]]

\* the callback of emit.callAsync
emitDone(s, i, err) ==
    IF err # NoError THEN afterEmitAssets(s, i, err, FALSE)
    ELSE [s EXCEPT !.builds[i] = [Log(@, "mkdirp", OutputPath) EXCEPT !.pc = "mkdirp"]]

\* the callback of afterEmit.callAsync
afterEmitDone(s, i, err, needAdditionalPass) ==
    afterEmitAssets(s, i, err, needAdditionalPass)

\* the callback of done.callAsync on the additional-pass path going straight
\* to compile
donePassDoneSkipping(s, i, err) ==
    IF err # NoError THEN finalCallback(s, i, err, NoStats)
    ELSE compile([s EXCEPT !.builds[i].passes = @ + 1], i)

\* the callback of done.callAsync on the additional-pass path
donePassDone(s, i, err) ==
    IF err # NoError THEN finalCallback(s, i, err, NoStats)
    ELSE [s EXCEPT !.builds[i] = [Log(@, "additionalPass", <<>>) EXCEPT
             !.pc = "additionalPass", !.passes = @ + 1]]

\* the callback of additionalPass.callAsync
additionalPassDone(s, i, err) ==
    IF err # NoError THEN finalCallback(s, i, err, NoStats)
    ELSE compile(s, i)

\* the callback of the records directory's mkdirp writing whatever mkdirp reported
recordsMkdirpDoneIgnoring(s, i, err) ==
    [s EXCEPT !.builds[i] = [Log(@, "recordsWriteFile", recordsOutputPath) EXCEPT
        !.pc = "recordsWriteFile", !.writing = Stringify(s.records)]]

\* the callback of the records directory's mkdirp
recordsMkdirpDone(s, i, err) ==
    IF err # NoError THEN finalCallback(s, i, err, NoStats)
    ELSE [s EXCEPT !.builds[i] = [Log(@, "recordsWriteFile", recordsOutputPath) EXCEPT
             !.pc = "recordsWriteFile", !.writing = Stringify(s.records)]]

\* the callback of the records file's writeFile
recordsWriteDone(s, i, err) ==
    IF err # NoError
    THEN finalCallback([s EXCEPT !.builds[i].writing = NoFile], i, err, NoStats)
    ELSE callDone([s EXCEPT !.disk = (recordsOutputPath :> s.builds[i].writing) @@ @,
                            !.builds[i].writing = NoFile], i, "done")

\* the callback of done.callAsync on the veto path and on the final path
doneDone(s, i, err) ==
    LET stats == s.builds[i].doneCalls[Len(s.builds[i].doneCalls)]
    IN  IF err # NoError THEN finalCallback(s, i, err, NoStats)
        ELSE finalCallback(s, i, NoError, stats)

(* ------------------------------ Watching ------------------------------ *)

\* Watching.close(): the handle is destroyed and the Compiler is idle again
close(s, w) ==
    [s EXCEPT !.watchings = Remove(@, w), !.running = FALSE]

\* the watch loop hands the times its watcher collected to the Compiler
setTimestamps(s, ft, ct) ==
    [s EXCEPT !.fileTimestamps = ft, !.contextTimestamps = ct]

(* ------------------------------ actions ------------------------------- *)

At(i, pc) == builds[i].pc = pc

\* note the first error an operation reported to build i
Failed(s, i, err) ==
    IF err # NoError /\ s.builds[i].failure = NoError
    THEN [s EXCEPT !.builds[i].failure = err]
    ELSE s

\* note that shouldEmit returned false for the compilation of build i
Vetoed(s, i, veto) ==
    IF veto THEN [s EXCEPT !.builds[i].vetoed = s.builds[i].compilation.id] ELSE s

\* note the Compiler as a call to op finds it
Called(s, op) ==
    [s EXCEPT !.before = [op |-> op, running |-> running,
                          fileTimestamps |-> fileTimestamps,
                          contextTimestamps |-> contextTimestamps]]

Run == calls < MaxCalls /\ Apply(Called(run(State), "run"))

Watch == calls < MaxCalls /\ Apply(Called(watch(State), "watch"))

WatchingClose ==
    \E w \in DOMAIN watchings : Open(watchings[w]) /\ Apply(close(State, w))

WatchingTimestamps ==
    \E w \in DOMAIN watchings, ft \in Tables, ct \in Tables :
        Open(watchings[w]) /\ Apply(setTimestamps(State, ft, ct))

BeforeRunDone ==
    \E i \in DOMAIN builds, err \in Outcomes("beforeRun") :
        At(i, "beforeRun") /\ Apply(Failed(beforeRunDone(State, i, err), i, err))

RunHookDone ==
    \E i \in DOMAIN builds, err \in Outcomes("run") :
        At(i, "run") /\ Apply(Failed(runHookDone(State, i, err), i, err))

StatDone ==
    \E i \in DOMAIN builds, err \in Outcomes("stat") :
        At(i, "stat") /\ Apply(statDone(State, i, err))

ReadFileDone ==
    \E i \in DOMAIN builds, err \in Outcomes("readFile"), content \in FileContents :
        At(i, "readFile")
        /\ Apply(Failed(Failed(readFileDone(State, i, err, content), i, err), i,
                        IF ParseJson(content).threw
                        THEN Err("parseJson",
                                 <<"Cannot parse records: ">> \o ParseJson(content).message)
                        ELSE NoError))

BeforeCompileDone ==
    \E i \in DOMAIN builds, err \in Outcomes("beforeCompile") :
        At(i, "beforeCompile") /\ Apply(Failed(beforeCompileDone(State, i, err), i, err))

MakeTapDone ==
    \E i \in DOMAIN builds, err \in Outcomes("make") :
        \E o \in builds[i].pending :
            o.kind = "make" /\ Apply(Failed(makeTapDone(State, i, o, err), i, err))

SealDone ==
    \E i \in DOMAIN builds, err \in Outcomes("seal"), assets \in SealOutputs :
        At(i, "seal") /\ Apply(Failed(sealDone(State, i, err, assets), i, err))

AfterCompileDone ==
    \E i \in DOMAIN builds, err \in Outcomes("afterCompile"),
       shouldEmit \in {"undefined", "false", "true"} :
        At(i, "afterCompile")
        /\ Apply(Vetoed(Failed(onCompiled(State, i, err, shouldEmit), i, err), i,
                         err = NoError /\ shouldEmit = "false"))

EmitDone ==
    \E i \in DOMAIN builds, err \in Outcomes("emit") :
        At(i, "emit") /\ Apply(Failed(emitDone(State, i, err), i, err))

OutputMkdirpDone ==
    \E i \in DOMAIN builds, err \in Outcomes("mkdirp") :
        At(i, "mkdirp") /\ Apply(Failed(emitFiles(State, i, err), i, err))

AssetMkdirpDone ==
    \E i \in DOMAIN builds, err \in Outcomes("assetMkdirp") :
        \E o \in builds[i].pending :
            o.kind = "assetMkdirp" /\ Apply(Failed(assetMkdirpDone(State, i, o, err), i, err))

AssetWriteDone ==
    \E i \in DOMAIN builds, err \in Outcomes("writeFile") :
        \E o \in builds[i].pending :
            o.kind = "writeFile" /\ Apply(Failed(assetWriteDone(State, i, o, err), i, err))

AfterEmitDone ==
    \E i \in DOMAIN builds, err \in Outcomes("afterEmit") :
        \E needAdditionalPass \in
                (IF builds[i].passes < MaxPasses THEN BOOLEAN ELSE {FALSE}) :
            At(i, "afterEmit") /\ Apply(Failed(afterEmitDone(State, i, err, needAdditionalPass), i, err))

DonePassDone ==
    \E i \in DOMAIN builds, err \in Outcomes("done") :
        At(i, "donePass") /\ Apply(Failed(donePassDone(State, i, err), i, err))

AdditionalPassDone ==
    \E i \in DOMAIN builds, err \in Outcomes("additionalPass") :
        At(i, "additionalPass") /\ Apply(Failed(additionalPassDone(State, i, err), i, err))

RecordsMkdirpDone ==
    \E i \in DOMAIN builds, err \in Outcomes("recordsMkdirp") :
        At(i, "recordsMkdirp") /\ Apply(Failed(recordsMkdirpDone(State, i, err), i, err))

RecordsWriteDone ==
    \E i \in DOMAIN builds, err \in Outcomes("recordsWriteFile") :
        At(i, "recordsWriteFile") /\ Apply(Failed(recordsWriteDone(State, i, err), i, err))

DoneDone ==
    \E i \in DOMAIN builds, err \in Outcomes("done") :
        (At(i, "doneVeto") \/ At(i, "done")) /\ Apply(Failed(doneDone(State, i, err), i, err))

Next ==
    \/ Run
    \/ Watch
    \/ WatchingClose
    \/ WatchingTimestamps
    \/ BeforeRunDone
    \/ RunHookDone
    \/ StatDone
    \/ ReadFileDone
    \/ BeforeCompileDone
    \/ MakeTapDone
    \/ SealDone
    \/ AfterCompileDone
    \/ EmitDone
    \/ OutputMkdirpDone
    \/ AssetMkdirpDone
    \/ AssetWriteDone
    \/ AfterEmitDone
    \/ DonePassDone
    \/ AdditionalPassDone
    \/ RecordsMkdirpDone
    \/ RecordsWriteDone
    \/ DoneDone

Spec == Init /\ [][Next]_vars

(* ----------------------- spawning child compilers --------------------- *)

\* note the list the parent's records held under the name of the child that
\* build i spawned last, as createChildCompiler found it, and the
\* outputOptions it was given
Found(s, i, list, outputOptions) ==
    [s EXCEPT !.builds[i].children[Len(s.builds[i].children)].found = list,
              !.builds[i].children[Len(s.builds[i].children)].given = outputOptions]

\* note the plugins createChildCompiler was given for the child that build i
\* spawned last
Applied(s, i, plugins) ==
    [s EXCEPT !.builds[i].children[Len(s.builds[i].children)].plugins = plugins]

\* the taps plugins registered on the parent Compiler
TotalTaps == Len(hooks["make"]) + Len(hooks["afterCompile"])

\* a plugin taps a hook of the parent Compiler
Tap ==
    \E name \in TappedHooks :
        /\ TotalTaps < MaxTaps
        /\ Apply([State EXCEPT !.hooks[name] = tap(@, 0, name, "q")])

\* a plugin at work in the make stage spawns a child compiler
CreateChildCompiler ==
    \E i \in DOMAIN builds, compilerName \in CompilerNames,
       compilerIndex \in CompilerIndices, outputOptions \in OutputOptionSets,
       plugins \in PluginLists :
        /\ At(i, "make")
        /\ Len(builds[i].children) < MaxSpawns
        /\ Apply(Applied(Found(createChildCompiler(State, i, compilerName,
                                                   compilerIndex, outputOptions,
                                                   plugins),
                               i, records[makePathsRelative(compilerName)].list,
                               outputOptions),
                         i, plugins))

\* the same, with no output options and no plugins
SpawnChild ==
    \E i \in DOMAIN builds, compilerName \in CompilerNames,
       compilerIndex \in CompilerIndices :
        /\ At(i, "make")
        /\ Len(builds[i].children) < MaxSpawns
        /\ Apply(Found(createChildCompiler(State, i, compilerName, compilerIndex,
                                           EmptyObject, <<>>),
                       i, records[makePathsRelative(compilerName)].list, EmptyObject))

\* the compilation of a child notes an identifier in the child's records
ChildWrite ==
    \E i \in DOMAIN builds, key \in RecordKeys :
        \E k \in DOMAIN builds[i].children :
            /\ At(i, "make")
            /\ key \notin RecordsOf(State, builds[i].children[k])
            /\ Apply(childWrite(State, i, k, key))

(* A Compiler in the make stage of its first build, whose plugins tap its  *)
(* hooks and spawn child compilers.                                        *)

\* the Compiler after construction
Constructed ==
    [running |-> FALSE, fileTimestamps |-> EmptyMap, contextTimestamps |-> EmptyMap,
     records |-> EmptyRecords, builds |-> <<>>, watchings |-> <<>>,
     rejected |-> [op |-> "none", err |-> NoError],
     existsAt |-> [n \in AssetNames |-> NoPath],
     emitted |-> [n \in AssetNames |-> "undefined"],
     disk |-> [p \in {} |-> NoFile], before |-> NoCall, calls |-> 0,
     hooks |-> NoTaps, options |-> WebpackOptions]

\* run() on it, up to the make hook of the first compilation
AtMake ==
    LET s1 == [run(Constructed) EXCEPT
                  !.before = [op |-> "run", running |-> FALSE,
                              fileTimestamps |-> EmptyMap,
                              contextTimestamps |-> EmptyMap]]
    IN  beforeCompileDone(runHookDone(beforeRunDone(s1, 1, NoError), 1, NoError),
                          1, NoError)

\* the variables hold state s
Holds(s) ==
    /\ running = s.running
    /\ fileTimestamps = s.fileTimestamps
    /\ contextTimestamps = s.contextTimestamps
    /\ records = s.records
    /\ builds = s.builds
    /\ watchings = s.watchings
    /\ rejected = s.rejected
    /\ existsAt = s.existsAt
    /\ emitted = s.emitted
    /\ disk = s.disk
    /\ before = s.before
    /\ calls = s.calls
    /\ hooks = s.hooks
    /\ options = s.options

ChildInit ==
    /\ recordsInputPath = NoPath
    /\ recordsOutputPath = NoPath
    /\ Holds(AtMake)

ChildNext ==
    \/ Tap
    \/ CreateChildCompiler
    \/ ChildWrite

ChildSpec == ChildInit /\ [][ChildNext]_vars

(* The child compilers of a build in its make stage are run with           *)
(* runAsChild.                                                             *)

RunAsChild ==
    \E i \in DOMAIN builds :
        \E k \in DOMAIN builds[i].children :
            /\ At(i, "make")
            /\ builds[i].children[k].pc = "created"
            /\ Apply(runAsChild(State, i, k))

\* compile of a child calls back
ChildCompiled ==
    \E i \in DOMAIN builds, err \in Outcomes("make"), assets \in ChildOutputs :
        \E k \in DOMAIN builds[i].children :
            /\ builds[i].children[k].pc = "compile"
            /\ Apply(runAsChildDone(State, i, k, err, assets))

ChildRunNext ==
    \/ SpawnChild
    \/ RunAsChild
    \/ ChildCompiled

ChildRunSpec == ChildInit /\ [][ChildRunNext]_vars

(* Builds that meet no failing hook and no failing write, produce no       *)
(* assets and spawn child compilers, run one after the other on a          *)
(* Compiler without recordsOutputPath.                                     *)

BeforeRunOk ==
    \E i \in DOMAIN builds : At(i, "beforeRun") /\ Apply(beforeRunDone(State, i, NoError))

RunHookOk ==
    \E i \in DOMAIN builds : At(i, "run") /\ Apply(runHookDone(State, i, NoError))

BeforeCompileOk ==
    \E i \in DOMAIN builds :
        At(i, "beforeCompile") /\ Apply(beforeCompileDone(State, i, NoError))

MakeTapOk ==
    \E i \in DOMAIN builds :
        \E o \in builds[i].pending :
            o.kind = "make" /\ Apply(makeTapDone(State, i, o, NoError))

SealOk ==
    \E i \in DOMAIN builds : At(i, "seal") /\ Apply(sealDone(State, i, NoError, <<>>))

AfterCompileOk ==
    \E i \in DOMAIN builds :
        At(i, "afterCompile") /\ Apply(onCompiled(State, i, NoError, "undefined"))

EmitOk ==
    \E i \in DOMAIN builds : At(i, "emit") /\ Apply(emitDone(State, i, NoError))

OutputMkdirpOk ==
    \E i \in DOMAIN builds : At(i, "mkdirp") /\ Apply(emitFiles(State, i, NoError))

AfterEmitOk ==
    \E i \in DOMAIN builds :
        At(i, "afterEmit") /\ Apply(afterEmitDone(State, i, NoError, FALSE))

DoneOk ==
    \E i \in DOMAIN builds :
        (At(i, "doneVeto") \/ At(i, "done")) /\ Apply(doneDone(State, i, NoError))

\* note in the build of a run() that passed the guard the records it found
Inheriting(s, found) ==
    IF ~running
    THEN [s EXCEPT !.builds[Len(s.builds)].inherited = found]
    ELSE s

\* run(callback), noting the records of the Compiler as the call finds them
RunAgain ==
    calls < MaxCalls /\ Apply(Inheriting(Called(run(State), "run"), records))

RecordsInit ==
    /\ recordsInputPath \in RecordsInputPaths
    /\ recordsOutputPath = NoPath
    /\ Holds(Constructed)

RecordsNext ==
    \/ RunAgain
    \/ BeforeRunOk
    \/ RunHookOk
    \/ StatDone
    \/ ReadFileDone
    \/ BeforeCompileOk
    \/ SpawnChild
    \/ ChildWrite
    \/ MakeTapOk
    \/ SealOk
    \/ AfterCompileOk
    \/ EmitOk
    \/ OutputMkdirpOk
    \/ AfterEmitOk
    \/ DoneOk

RecordsSpec == RecordsInit /\ [][RecordsNext]_vars

(* --------------------------- hook dispatch ---------------------------- *)
(* The taps of hooks.shouldEmit (a SyncBailHook) and of hooks.beforeRun (an *)
(* AsyncSeriesHook) with what their functions do: a plugin is named by     *)
(* what its tap returns, or by how its tap calls back.                      *)

\* what the function of a shouldEmit tap may return
BailPlugins == {"undefined", "false", "x"}
\* how the function of a beforeRun tap may call back
SeriesPlugins == {"ok", "fails"}

\* what the function of a tap on a SyncBailHook returns
Returned(t) == t.by
\* what the function of a tap on an AsyncSeriesHook calls back with
CalledBack(t) == IF t.by = "fails" THEN StageError(t.hook) ELSE NoError

\* SyncBailHook.call invoking every tap and giving the last defined result
RECURSIVE callAllFrom(_, _, _)
callAllFrom(taps, n, result) ==
    IF n > Len(taps) THEN [invoked |-> taps, result |-> result]
    ELSE callAllFrom(taps, n + 1,
                     IF Returned(taps[n]) # "undefined" THEN Returned(taps[n]) ELSE result)
callAll(taps) == callAllFrom(taps, 1, "undefined")

\* SyncBailHook.call from the n-th tap on: the taps it invokes and its result
RECURSIVE callFrom(_, _)
callFrom(taps, n) ==
    IF n > Len(taps) THEN [invoked |-> <<>>, result |-> "undefined"]
    ELSE IF Returned(taps[n]) # "undefined"
    THEN [invoked |-> <<taps[n]>>, result |-> Returned(taps[n])]
    ELSE LET rest == callFrom(taps, n + 1)
         IN  [invoked |-> <<taps[n]>> \o rest.invoked, result |-> rest.result]

\* SyncBailHook.call(...)
call(taps) == callFrom(taps, 1)

\* the callback of the n-th tap of an AsyncSeriesHook going on to the next
\* tap whatever the tap reported
seriesTapDoneIgnoring(taps, n, err) ==
    IF n < Len(taps) THEN [done |-> FALSE, next |-> n + 1, err |-> NoError]
    ELSE [done |-> TRUE, next |-> 0, err |-> err]

\* the callback AsyncSeriesHook.callAsync hands the n-th tap: the hook is done
\* with the error, or with the last tap; else the next tap is invoked
seriesTapDone(taps, n, err) ==
    IF err # NoError THEN [done |-> TRUE, next |-> 0, err |-> err]
    ELSE IF n < Len(taps) THEN [done |-> FALSE, next |-> n + 1, err |-> NoError]
    ELSE [done |-> TRUE, next |-> 0, err |-> NoError]

\* AsyncSeriesHook.callAsync(...): the tap it invokes first, 0 with no tap
callAsync(taps) == IF taps = <<>> THEN 0 ELSE 1

\* note that a hook of build i invoked a tap, and what the tap gave
Invoked(s, i, t, gave) ==
    [s EXCEPT !.builds[i].dispatch = Append(@, [tap |-> t, gave |-> gave])]
\* note what the tap that build i invoked last gave
Gave(s, i, gave) ==
    [s EXCEPT !.builds[i].dispatch[Len(s.builds[i].dispatch)].gave = gave]
RECURSIVE InvokedAll(_, _, _, _)
InvokedAll(s, i, ts, n) ==
    IF n > Len(ts) THEN s
    ELSE InvokedAll(Invoked(s, i, ts[n], Returned(ts[n])), i, ts, n + 1)
\* note what hooks.shouldEmit.call returned to build i
ReturnedTo(s, i, result) == [s EXCEPT !.builds[i].returned = result]

\* the taps plugins registered on the two hooks
DispatchTaps == Len(hooks["shouldEmit"]) + Len(hooks["beforeRun"])

\* a plugin taps hooks.shouldEmit or hooks.beforeRun of the idle Compiler
TapShouldEmit ==
    \E plugin \in BailPlugins :
        /\ ~running /\ DispatchTaps < MaxTaps
        /\ Apply([State EXCEPT !.hooks["shouldEmit"] = tap(@, 0, "shouldEmit", plugin)])

TapBeforeRun ==
    \E plugin \in SeriesPlugins :
        /\ ~running /\ DispatchTaps < MaxTaps
        /\ Apply([State EXCEPT !.hooks["beforeRun"] = tap(@, 0, "beforeRun", plugin)])

\* run(callback): beforeRun.callAsync invokes the first tap of the hook, or
\* with no tap calls its callback before run returns
RunTapped ==
    /\ calls < MaxCalls
    /\ LET s == Called(run(State), "run")
           first == callAsync(hooks["beforeRun"])
       IN  Apply(IF running THEN s
                 ELSE IF first > 0
                 THEN Invoked(s, Len(s.builds), hooks["beforeRun"][first], "pending")
                 ELSE beforeRunDone(s, Len(s.builds), NoError))

\* a beforeRun tap calls back
BeforeRunTapDone ==
    \E i \in DOMAIN builds :
        /\ At(i, "beforeRun") /\ builds[i].dispatch # <<>>
        /\ LET taps == hooks["beforeRun"]
               n == Len(builds[i].dispatch)
               err == CalledBack(taps[n])
               d == seriesTapDone(taps, n, err)
               s == Gave(State, i, taps[n].by)
           IN  Apply(IF d.done THEN Failed(beforeRunDone(s, i, d.err), i, err)
                     ELSE Failed(Invoked(s, i, taps[d.next], "pending"), i, err))

\* compilation.seal leaves both assets, inserted in one order or the other
SealAssetsOk ==
    \E i \in DOMAIN builds, assets \in KeyOrders(AssetNames) :
        /\ At(i, "seal") /\ NamesIn(assets) = AssetNames
        /\ Apply(sealDone(State, i, NoError, assets))

\* the callback of afterCompile: onCompiled with what hooks.shouldEmit.call
\* returns
AfterCompileCall ==
    \E i \in DOMAIN builds :
        /\ At(i, "afterCompile")
        /\ LET c == call(hooks["shouldEmit"])
           IN  Apply(ReturnedTo(InvokedAll(Vetoed(onCompiled(State, i, NoError, c.result),
                                                  i, c.result = "false"),
                                           i, c.invoked, 1),
                                i, c.result))

AssetMkdirpOk ==
    \E i \in DOMAIN builds :
        \E o \in builds[i].pending :
            o.kind = "assetMkdirp" /\ Apply(assetMkdirpDone(State, i, o, NoError))

AssetWriteOk ==
    \E i \in DOMAIN builds :
        \E o \in builds[i].pending :
            o.kind = "writeFile" /\ Apply(assetWriteDone(State, i, o, NoError))

DispatchInit ==
    /\ recordsInputPath = NoPath
    /\ recordsOutputPath = NoPath
    /\ Holds(Constructed)

DispatchNext ==
    \/ TapShouldEmit
    \/ TapBeforeRun
    \/ RunTapped
    \/ BeforeRunTapDone
    \/ RunHookOk
    \/ BeforeCompileOk
    \/ MakeTapOk
    \/ SealAssetsOk
    \/ AfterCompileCall
    \/ EmitOk
    \/ OutputMkdirpOk
    \/ AssetMkdirpOk
    \/ AssetWriteOk
    \/ AfterEmitOk
    \/ DoneOk

DispatchSpec == DispatchInit /\ [][DispatchNext]_vars

(* ----------------------- assets with a query ------------------------- *)
(* Builds whose compilation may hold, next to the other assets, an asset    *)
(* whose name ends in a query string.                                      *)

\* the names of the assets, one of them with a query string
QueryAssets == AssetNames \cup {<<"b", "?", "v">>}

\* the callback of compilation.seal with the assets it left
SealQuery ==
    \E i \in DOMAIN builds, assets \in KeyOrders(QueryAssets) :
        At(i, "seal") /\ Apply(sealDone(State, i, NoError, assets))

QueryInit ==
    /\ recordsInputPath = NoPath
    /\ recordsOutputPath = NoPath
    /\ Holds([Constructed EXCEPT !.existsAt = [n \in QueryAssets |-> NoPath],
                                 !.emitted = [n \in QueryAssets |-> "undefined"]])

QueryNext ==
    \/ Run
    \/ BeforeRunOk
    \/ RunHookOk
    \/ BeforeCompileOk
    \/ MakeTapOk
    \/ SealQuery
    \/ AfterCompileOk
    \/ EmitOk
    \/ OutputMkdirpOk
    \/ AssetMkdirpOk
    \/ AssetWriteOk
    \/ AfterEmitOk
    \/ DoneOk

QuerySpec == QueryInit /\ [][QueryNext]_vars

(* ------------------------ runs that go round ------------------------- *)
(* run() on a Compiler no operation of which fails, the needAdditionalPass *)
(* hook of its compilations asking for another pass time after time.       *)

\* the callback of afterEmit, with what needAdditionalPass.call() returns
AfterEmitAsking ==
    \E i \in DOMAIN builds, needAdditionalPass \in BOOLEAN :
        /\ At(i, "afterEmit")
        /\ needAdditionalPass => builds[i].passes < MaxLoop
        /\ Apply(afterEmitDone(State, i, NoError, needAdditionalPass))

DonePassOk ==
    \E i \in DOMAIN builds : At(i, "donePass") /\ Apply(donePassDone(State, i, NoError))

AdditionalPassOk ==
    \E i \in DOMAIN builds :
        At(i, "additionalPass") /\ Apply(additionalPassDone(State, i, NoError))

PassInit ==
    /\ recordsInputPath = NoPath
    /\ recordsOutputPath \in RecordsOutputPaths
    /\ Holds(Constructed)

PassNext ==
    \/ Run
    \/ BeforeRunOk
    \/ RunHookOk
    \/ BeforeCompileOk
    \/ MakeTapOk
    \/ SealAssetsOk
    \/ AfterCompileOk
    \/ EmitOk
    \/ OutputMkdirpOk
    \/ AssetMkdirpOk
    \/ AssetWriteOk
    \/ AfterEmitAsking
    \/ DonePassOk
    \/ AdditionalPassOk
    \/ RecordsMkdirpDone
    \/ RecordsWriteDone
    \/ DoneDone

PassSpec == PassInit /\ [][PassNext]_vars

(* ------------------------- runs that go on --------------------------- *)
(* run() calls on a Compiler nobody watches with, which reads and writes   *)
(* its records, every operation they start calling back in the end: a hook *)
(* or a filesystem call in progress does not stay in progress for ever.    *)

\* an operation in progress calls back
Completion ==
    \/ BeforeRunDone
    \/ RunHookDone
    \/ StatDone
    \/ ReadFileDone
    \/ BeforeCompileDone
    \/ MakeTapDone
    \/ SealDone
    \/ AfterCompileDone
    \/ EmitDone
    \/ OutputMkdirpDone
    \/ AssetMkdirpDone
    \/ AssetWriteDone
    \/ AfterEmitDone
    \/ DonePassDone
    \/ AdditionalPassDone
    \/ RecordsMkdirpDone
    \/ RecordsWriteDone
    \/ DoneDone

\* a run() call that passes the guard
RunAccepted == ~running /\ Run

FairNext ==
    \/ RunAccepted
    \/ Completion

\* the Compiler after construction, with both records paths configured
FairInit ==
    /\ recordsInputPath = <<"/", "i", "/", "r">>
    /\ recordsOutputPath = <<"/", "o", "/", "r">>
    /\ Holds(Constructed)

FairSpec == FairInit /\ [][FairNext]_vars /\ WF_vars(Completion)

(* ---------------------- reading a build's history --------------------- *)

InFlight(b) == b.pc # "finished"

\* the history of a build is dropped once a later call passes the guard
Recorded(b) == ~b.retired

\* the names of the operations a build started, in order
Ops(b) == [k \in 1..Len(b.trace) |-> b.trace[k].op]

\* the first and the last position of op in ops, 0 when absent
PosOf(ops, op) ==
    IF \E k \in 1..Len(ops) : ops[k] = op
    THEN CHOOSE k \in 1..Len(ops) : ops[k] = op /\ \A j \in 1..(k - 1) : ops[j] # op
    ELSE 0
LastPosOf(ops, op) ==
    IF \E k \in 1..Len(ops) : ops[k] = op
    THEN CHOOSE k \in 1..Len(ops) : ops[k] = op /\ \A j \in (k + 1)..Len(ops) : ops[j] # op
    ELSE 0

\* the first position of op among the operations b started, 0 when absent
PosIn(b, op) ==
    IF \E k \in 1..Len(b.trace) : b.trace[k].op = op
    THEN CHOOSE k \in 1..Len(b.trace) :
             b.trace[k].op = op /\ \A j \in 1..(k - 1) : b.trace[j].op # op
    ELSE 0

\* the make taps of build b that have not called back
MakeOps(b) == {o \in b.pending : o.kind = "make"}

MakeNames(b) == {o.name : o \in MakeOps(b)}

\* the stage of run() an operation, or the error it reports, belongs to
StageOf(op) ==
    CASE op \in {"stat", "readFile", "parseJson"} -> "readRecords"
      [] op \in {"assetMkdirp", "writeFile"} -> "assets"
      [] op \in {"recordsMkdirp", "recordsWriteFile"} -> "emitRecords"
      [] OTHER -> op

\* the stages of a run that neither fails, nor is vetoed, nor takes another pass
RunStages ==
    <<"beforeRun", "run", "readRecords", "beforeCompile", "compile", "thisCompilation",
      "compilation", "make", "finish", "seal", "afterCompile", "shouldEmit", "emit",
      "afterEmit", "needAdditionalPass", "emitRecords", "done", "callback">>

\* the filesystem calls and factory hooks made inside a stage
WithinStage(op) ==
    op \in {"normalModuleFactory", "contextModuleFactory", "stat", "readFile", "mkdirp",
            "assetMkdirp", "writeFile", "recordsMkdirp", "recordsWriteFile",
            "childCompiler"}
IsStage(op) == ~WithinStage(op)
Stages(b) == SelectSeq(Ops(b), IsStage)

IsPrefix(a, b) == Len(a) <= Len(b) /\ SubSeq(b, 1, Len(a)) = a

EmissionOps == {"emit", "mkdirp", "assetMkdirp", "writeFile", "afterEmit"}
RecordOps == {"emitRecords", "recordsMkdirp", "recordsWriteFile"}

\* the operations started from the last shouldEmit call on
SinceShouldEmit(b) == SubSeq(Ops(b), LastPosOf(Ops(b), "shouldEmit"), Len(b.trace))

\* the Stats the done hook was given for compilation id
DoneCallsFor(b, id) == SelectSeq(b.doneCalls, LAMBDA st : st.compilation = id)

\* a step of run() or watch() that finds the Compiler running, or idle
RunStep == before'.op = "run" /\ calls' = calls + 1
WatchStep == before'.op = "watch" /\ calls' = calls + 1

(* ------------------------------- claims ------------------------------- *)

\* C1: run() on a running Compiler hands its callback a
\* ConcurrentCompilationError, starts no hook and no filesystem operation, and
\* leaves fileTimestamps, contextTimestamps, records and running as they were.
C1_RunRejected ==
    [][(running /\ RunStep) =>
          /\ rejected' = [op |-> "run", err |-> ConcurrentCompilationError]
          /\ UNCHANGED <<running, fileTimestamps, contextTimestamps, records, builds,
                         watchings, existsAt, emitted, disk>>]_vars

\* a run() rejected while the make taps of the build in progress are at work
C1_Witness ==
    /\ rejected = [op |-> "run", err |-> ConcurrentCompilationError]
    /\ before.op = "run" /\ before.running
    /\ running
    /\ \E i \in DOMAIN builds : builds[i].pc = "make" /\ builds[i].pending # {}

\* C2: whichever way an accepted run() ends, running is false at the moment
\* the caller's callback is invoked.
C2_IdleAtCallback ==
    \A i \in DOMAIN builds : builds[i].result.called => ~builds[i].result.running

\* the callback of a run that ended on its last exit, a failing done hook
C2_Witness ==
    \E i \in DOMAIN builds :
        /\ builds[i].result.called
        /\ builds[i].result.err = StageError("done")
        /\ ~builds[i].result.running

\* C3: at most one accepted top-level build (a run() whose callback has not
\* fired, a watch() whose handle is open) exists at any time.
C3_OneBuild ==
    Cardinality({i \in DOMAIN builds : InFlight(builds[i])}) + Len(watchings) <= 1

\* a run in flight beside the unheard operations of the failed run before it
C3_Witness ==
    \E i, j \in DOMAIN builds :
        /\ ~InFlight(builds[i]) /\ builds[i].pending # {}
        /\ InFlight(builds[j])

\* C4: when an operation of a stage reports an error, the caller's callback
\* is invoked exactly once, with that error and without stats, and the
\* run starts nothing of a later stage: the last operation started before the
\* callback belongs to the failing stage, and what starts after it is a
\* writeFile of the asset stage that failed.
C4_FailureAborts ==
    \A i \in DOMAIN builds :
        LET b == builds[i]
            k == PosIn(b, "callback")
        IN  b.failure # NoError =>
                /\ b.pc = "finished"
                /\ b.cbCount = 1
                /\ b.result.called
                /\ b.result.err = b.failure
                /\ b.result.stats = NoStats
                /\ Recorded(b) =>
                       /\ k > 1
                       /\ StageOf(b.trace[k - 1].op) = StageOf(b.failure.error)
                       /\ \A j \in (k + 1)..Len(b.trace) :
                              b.trace[j].op = "writeFile" /\ StageOf(b.failure.error) = "assets"

\* an asset write failed while the directory of another asset was still being
\* made; its writeFile started after the callback
C4_Witness ==
    \E i \in DOMAIN builds :
        LET b == builds[i]
        IN  /\ b.failure = StageError("writeFile")
            /\ b.result.err = StageError("writeFile")
            /\ Recorded(b)
            /\ PosOf(Ops(b), "callback") < Len(b.trace)

\* C5: a run without failure, veto or additional pass goes through the
\* stages of RunStages once each and in that order, one at a time; the asset
\* writes lie between emit and afterEmit.
C5_StageOrder ==
    \A i \in DOMAIN builds :
        LET b == builds[i]
        IN  (/\ Recorded(b) /\ b.failure = NoError /\ b.vetoed = 0
             /\ b.passes = 0 /\ ~b.compilation.needAdditionalPass) =>
                /\ IsPrefix(Stages(b), RunStages)
                /\ b.result.called =>
                       Stages(b) = RunStages /\ b.result.err = NoError
                /\ \A k \in 1..Len(b.trace) :
                       b.trace[k].op \in {"mkdirp", "assetMkdirp", "writeFile"} =>
                           /\ 0 < PosIn(b, "emit") /\ PosIn(b, "emit") < k
                           /\ PosIn(b, "afterEmit") # 0 => k < PosIn(b, "afterEmit")
                /\ b.pc \notin {"make", "assets"} => b.pending = {}

\* a run that wrote both assets and ended well
C5_Witness ==
    \E i \in DOMAIN builds :
        LET b == builds[i]
        IN  /\ b.result.called /\ b.failure = NoError /\ b.vetoed = 0 /\ b.passes = 0
            /\ b.compilation.assets = AssetNames
            /\ Stages(b) = RunStages
            /\ Cardinality({k \in 1..Len(b.trace) : b.trace[k].op = "writeFile"}) = 2

\* C6 as claimed: after a veto the caller's callback gets no error and the
\* Stats the done hook was given.
C6_VetoAlwaysSucceeds ==
    \A i \in DOMAIN builds :
        LET b == builds[i]
        IN  (b.vetoed # 0 /\ b.result.called) =>
                /\ b.result.err = NoError
                /\ b.result.stats = b.doneCalls[Len(b.doneCalls)]

\* C6, amended: after a veto nothing of the emission is started (no emit
\* hook, no mkdirp, no writeFile, no afterEmit), the done hook is called once
\* for the vetoed compilation, with Stats whose startTime and endTime are set,
\* and the caller's callback gets no error and those Stats, unless the done
\* hook fails: then it gets that error and no Stats.
C6_VetoSkipsEmission ==
    \A i \in DOMAIN builds :
        LET b == builds[i]
            given == DoneCallsFor(b, b.vetoed)
        IN  (b.vetoed # 0 /\ Recorded(b)) =>
                /\ \A k \in 1..Len(SinceShouldEmit(b)) :
                       SinceShouldEmit(b)[k] \notin EmissionOps
                /\ Len(given) = 1
                /\ given[1].startTime = "startTime" /\ given[1].endTime = "now"
                /\ b.result.called =>
                       IF b.failure = NoError
                       THEN b.result.err = NoError /\ b.result.stats = given[1]
                       ELSE /\ b.failure = StageError("done")
                            /\ b.result.err = b.failure
                            /\ b.result.stats = NoStats

\* a vetoed run that produced assets and called back with the Stats
C6_Witness ==
    \E i \in DOMAIN builds :
        LET b == builds[i]
        IN  /\ b.vetoed = 1 /\ b.result.called /\ b.result.err = NoError
            /\ b.compilation.assets = AssetNames
            /\ b.result.stats = NewStats(b.compilation)

\* C7 as claimed: after a veto emitRecords is executed before the done hook
\* is called.
C7_VetoPersistsRecords ==
    \A i \in DOMAIN builds :
        LET b == builds[i]
            since == SinceShouldEmit(b)
        IN  (b.vetoed # 0 /\ Recorded(b)) =>
                \E j, d \in 1..Len(since) :
                    j < d /\ since[j] = "emitRecords" /\ since[d] = "done"

\* C7, amended: after a veto the run goes straight to the done hook;
\* emitRecords is not executed, no records directory is made and no records
\* file is written.
C7_VetoSkipsRecords ==
    \A i \in DOMAIN builds :
        LET b == builds[i]
            since == SinceShouldEmit(b)
        IN  (b.vetoed # 0 /\ Recorded(b)) =>
                /\ Len(since) >= 2 /\ since[1] = "shouldEmit" /\ since[2] = "done"
                /\ \A k \in 1..Len(since) : since[k] \notin RecordOps
                /\ b.writing = NoFile

\* a vetoed run of a Compiler with a records output path called back and
\* no records file exists
C7_Witness ==
    \E i \in DOMAIN builds :
        LET b == builds[i]
        IN  /\ b.vetoed # 0 /\ b.result.called /\ Recorded(b)
            /\ recordsOutputPath # NoPath
            /\ recordsOutputPath \notin DOMAIN disk

\* C8: an accepted run() resets both timestamp tables to empty before any
\* stage hook is called, so that entries an earlier build or watch session
\* left are not visible to the new run.
C8_RunResetsTimestamps ==
    [][(~running /\ RunStep) =>
          fileTimestamps' = EmptyMap /\ contextTimestamps' = EmptyMap]_vars

\* C9 as claimed: an accepted watch() leaves both timestamp tables unchanged.
C9_WatchKeepsTimestamps ==
    [][(~running /\ WatchStep) => UNCHANGED <<fileTimestamps, contextTimestamps>>]_vars

\* C9, amended: an accepted watch() replaces both timestamp tables by empty
\* ones; no entry present before the call is left.
C9_WatchResetsTimestamps ==
    [][(~running /\ WatchStep) =>
          /\ fileTimestamps' = EmptyMap /\ contextTimestamps' = EmptyMap
          /\ Len(watchings') = Len(watchings) + 1]_vars

\* a watch accepted after a watch session that left entries in both tables
C9_Witness ==
    /\ before.op = "watch" /\ ~before.running
    /\ before.fileTimestamps # EmptyMap /\ before.contextTimestamps # EmptyMap
    /\ fileTimestamps = EmptyMap /\ contextTimestamps = EmptyMap
    /\ Len(watchings) = 1

\* C10: watch() on a running Compiler hands its handler a
\* ConcurrentCompilationError, creates no handle and changes nothing of the
\* Compiler; on an idle Compiler it sets running before it creates the
\* handle, and while a handle is open the guard holds.
C10_WatchGuard ==
    /\ [][(running /\ WatchStep) =>
             /\ rejected' = [op |-> "watch", err |-> ConcurrentCompilationError]
             /\ UNCHANGED <<running, fileTimestamps, contextTimestamps, records, builds,
                            watchings, existsAt, emitted, disk>>]_vars
    /\ [][(~running /\ WatchStep) =>
             /\ running'
             /\ Len(watchings') = Len(watchings) + 1
             /\ watchings'[Len(watchings')].compilerRunning]_vars
    /\ [](watchings # <<>> => running)

\* a watch() rejected while a watch session is open and its tables hold entries
C10_Witness ==
    /\ rejected = [op |-> "watch", err |-> ConcurrentCompilationError]
    /\ before.op = "watch" /\ before.running
    /\ Len(watchings) = 1 /\ watchings[1].compilerRunning
    /\ running
    /\ fileTimestamps # EmptyMap

(* ---------------------- reading a step of a build --------------------- *)

\* the builds at work in a step: every build, but in the step of a run() or
\* watch() call, in which no build moves (a call that passes the guard
\* starts a new one and drops the closures that are over)
Staying == IF calls' = calls THEN DOMAIN builds \cap DOMAIN builds' ELSE {}

\* the operations build i starts in a step
StartedBy(i) ==
    IF Len(builds'[i].trace) > Len(builds[i].trace)
    THEN SubSeq(Ops(builds'[i]), Len(builds[i].trace) + 1, Len(builds'[i].trace))
    ELSE <<>>

\* op is among the operations build i starts in a step
Starts(i, op) ==
    \E k \in (Len(builds[i].trace) + 1)..Len(builds'[i].trace) :
        builds'[i].trace[k].op = op

\* the fixed marker of a records file that does not parse
ParseMarker == <<"Cannot parse records: ">>

\* the directory of recordsOutputPath, NoPath when it has none
RecordsDirectory ==
    IF LastIndexOf(recordsOutputPath, "/") > 0
    THEN Substr(recordsOutputPath, 0, LastIndexOf(recordsOutputPath, "/"))
    ELSE NoPath

\* the arguments of the operations named op in the history of b
ArgsOf(b, op) == {b.trace[k].arg : k \in {j \in 1..Len(b.trace) : b.trace[j].op = op}}

(* --------------------------- claims, records -------------------------- *)

\* C11 as claimed: when readRecords ends without reading (no recordsInputPath,
\* or stat reports that the file does not exist), compiler.records is the
\* empty store whatever it held before, and the run goes on to compile.
C11_MissingRecordsEmpty ==
    [][\A i \in Staying :
          (builds[i].pc \in {"run", "stat"} /\ builds'[i].pc = "beforeCompile") =>
              records' = EmptyRecords]_vars

\* C12: when the records file is read but does not parse, the caller's
\* callback gets an error whose message starts with "Cannot parse records: ",
\* compiler.records is left as it was, and the run ends without beforeCompile
\* or any later stage.
C12_ParseFailure ==
    /\ [][\A i \in Staying :
             (builds[i].pc = "readFile" /\ builds'[i].failure.error = "parseJson") =>
                 /\ records' = records
                 /\ builds'[i].pc = "finished"
                 /\ StartedBy(i) = <<"callback">>]_vars
    /\ [](\A i \in DOMAIN builds :
             LET b == builds[i]
             IN  b.failure.error = "parseJson" =>
                     /\ b.result.called /\ b.cbCount = 1
                     /\ b.result.stats = NoStats
                     /\ IsPrefix(ParseMarker, b.result.err.message)
                     /\ Len(b.result.err.message) > Len(ParseMarker)
                     /\ Recorded(b) =>
                            Stages(b) = <<"beforeRun", "run", "readRecords", "callback">>)

\* a records file that does not parse, met by a Compiler whose records hold
\* what an earlier run read
C12_Witness ==
    /\ records = OneChildRecords
    /\ \E i \in DOMAIN builds :
           /\ builds[i].failure.error = "parseJson"
           /\ builds[i].result.called
           /\ Stages(builds[i]) = <<"beforeRun", "run", "readRecords", "callback">>

\* C13: emitRecords without a recordsOutputPath calls back at once with
\* success (the run goes on to the done hook in the same step), starts no
\* mkdirp and no writeFile, and leaves compiler.records and the files alone.
C13_NoOutputPath ==
    /\ [][\A i \in Staying :
             (Starts(i, "emitRecords") /\ recordsOutputPath = NoPath) =>
                 /\ StartedBy(i) = <<"needAdditionalPass", "emitRecords", "done">>
                 /\ builds'[i].pc = "done"
                 /\ builds'[i].writing = NoFile
                 /\ records' = records
                 /\ disk' = disk]_vars
    /\ [](recordsOutputPath = NoPath =>
             \A i \in DOMAIN builds :
                 /\ ArgsOf(builds[i], "recordsMkdirp") = {}
                 /\ ArgsOf(builds[i], "recordsWriteFile") = {}
                 /\ builds[i].failure.error \notin {"recordsMkdirp", "recordsWriteFile"})

\* a run without recordsOutputPath, with records an earlier run read, that
\* got past emitRecords and called back
C13_Witness ==
    /\ recordsOutputPath = NoPath
    /\ records = OneChildRecords
    /\ \E i \in DOMAIN builds :
           /\ builds[i].result.called /\ builds[i].result.err = NoError
           /\ PosOf(Ops(builds[i]), "emitRecords") > 0

\* the indentation of every line is a multiple of two spaces, the root at 0
TwoSpaceIndented(content) ==
    /\ content # <<>>
    /\ content[1].indent = 0 /\ content[Len(content)].indent = 0
    /\ \A k \in 1..Len(content) : content[k].indent \in {0, 2, 4, 6}
    /\ \A k \in 1..(Len(content) - 1) :
           content[k + 1].indent - content[k].indent \in {-2, 0, 2}

\* C14: emitRecords with a recordsOutputPath that has a parent directory
\* makes that directory first; only when mkdirp succeeded it writes
\* JSON.stringify(records, undefined, 2) to recordsOutputPath; when mkdirp
\* fails the error is reported and nothing is written. Without
\* recordsInputPath and without child compilers the content is exactly {}.
C14_RecordsWritten ==
    \A i \in DOMAIN builds :
        LET b == builds[i]
        IN  (Recorded(b) /\ RecordsDirectory # NoPath) =>
                /\ \A k \in 1..Len(b.trace) :
                       /\ (b.trace[k].op = "emitRecords" /\ k < Len(b.trace)) =>
                              /\ b.trace[k + 1].op = "recordsMkdirp"
                              /\ b.trace[k + 1].arg = RecordsDirectory
                       /\ b.trace[k].op = "recordsWriteFile" =>
                              /\ k > 1 /\ b.trace[k - 1].op = "recordsMkdirp"
                              /\ b.trace[k].arg = recordsOutputPath
                              /\ b.failure # StageError("recordsMkdirp")
                /\ b.failure = StageError("recordsMkdirp") =>
                       /\ ArgsOf(b, "recordsWriteFile") = {}
                       /\ b.result.called /\ b.result.err = StageError("recordsMkdirp")
                /\ b.pc = "recordsWriteFile" =>
                       b.writing = Stringify(records) /\ TwoSpaceIndented(b.writing)
                /\ (b.pc \in {"done", "finished"} /\ ArgsOf(b, "recordsWriteFile") # {}
                    /\ b.failure # StageError("recordsWriteFile")) =>
                       /\ recordsOutputPath \in DOMAIN disk
                       /\ disk[recordsOutputPath] = Stringify(records)
                       /\ recordsInputPath = NoPath =>
                              disk[recordsOutputPath] = <<Line(0, "{}")>>

\* a build without assets of a Compiler without recordsInputPath ended well
\* and the records file holds {}
C14_Witness ==
    /\ recordsInputPath = NoPath
    /\ recordsOutputPath \in DOMAIN disk
    /\ disk[recordsOutputPath] = <<Line(0, "{}")>>
    /\ \E i \in DOMAIN builds :
           /\ builds[i].result.called /\ builds[i].result.err = NoError
           /\ builds[i].compilation.assets = {}
           /\ ArgsOf(builds[i], "recordsMkdirp") = {RecordsDirectory}

(* -------------------------- claims, emission -------------------------- *)

\* the path emitAssets computes for an asset
TargetPath(f) == Join(OutputPath, TargetFile(f))

\* the writeFile calls build i starts for asset f in a step
NewWrites(i, f) ==
    {o \in builds'[i].pending :
        /\ o.kind = "writeFile" /\ o.name = f
        /\ \A q \in builds[i].pending : ~(q.kind = "writeFile" /\ q.name = f)}

\* a step in which the turn of asset f comes in build i: forEach reaches an
\* asset without directory part, or the mkdirp of its directory succeeded
TurnOf(i, f) ==
    \/ /\ builds[i].pc = "mkdirp" /\ builds'[i].pc \in {"assets", "afterEmit"}
       /\ f \in builds[i].compilation.assets
       /\ ~HasSeparator(TargetFile(f))
    \/ \E o \in builds[i].pending :
           /\ o.kind = "assetMkdirp" /\ o.name = f /\ o.live
           /\ \A q \in builds'[i].pending : ~(q.kind = "assetMkdirp" /\ q.name = f)
           /\ builds'[i].failure = NoError

\* what writeOut does for asset f in build i
WriteOutOf(i, f) ==
    IF existsAt[f] = TargetPath(f)
    THEN /\ NewWrites(i, f) = {}
         /\ ~Starts(i, "writeFile")
         /\ emitted'[f] = "false"
         /\ existsAt'[f] = existsAt[f]
    ELSE /\ Cardinality(NewWrites(i, f)) = 1
         /\ \A o \in NewWrites(i, f) : o.path = TargetPath(f)
         /\ existsAt'[f] = TargetPath(f)
         /\ emitted'[f] = "true"

\* C15: when the turn of an asset comes during emitAssets and its existsAt
\* equals the target path, no writeFile is issued for it and emitted becomes
\* false; otherwise exactly one writeFile to the target path is issued,
\* existsAt becomes the target path and emitted true. Nothing else changes
\* existsAt or emitted or writes an asset, and one run writes no target twice.
C15_ExistsAtSkips ==
    /\ [][\A f \in AssetNames :
             /\ \A i \in Staying : TurnOf(i, f) => WriteOutOf(i, f)
             /\ (\/ existsAt'[f] # existsAt[f]
                 \/ emitted'[f] # emitted[f]
                 \/ \E i \in Staying : NewWrites(i, f) # {}) =>
                    \E i \in Staying : WriteOutOf(i, f)]_vars
    /\ [](\A i \in DOMAIN builds : \A f \in AssetNames :
             Cardinality({k \in 1..Len(builds[i].trace) :
                             /\ builds[i].trace[k].op = "writeFile"
                             /\ builds[i].trace[k].arg = TargetPath(f)}) <= 1)

\* a run emitted both assets, which an earlier run had written to the same
\* paths, and called back without any writeFile
C15_Witness ==
    \E i \in DOMAIN builds :
        LET b == builds[i]
        IN  /\ b.result.called /\ b.result.err = NoError /\ Recorded(b)
            /\ b.compilation.assets = AssetNames
            /\ PosOf(Ops(b), "afterEmit") > 0
            /\ ArgsOf(b, "assetMkdirp") # {}
            /\ ArgsOf(b, "writeFile") = {}
            /\ \A f \in AssetNames : emitted[f] = "false" /\ existsAt[f] = TargetPath(f)

\* the positions in the history of b at which a pass asked for another one:
\* needAdditionalPass followed by the done hook instead of emitRecords
Requests(b) ==
    {k \in 1..(Len(b.trace) - 1) :
        b.trace[k].op = "needAdditionalPass" /\ b.trace[k + 1].op = "done"}

\* the operations compile() starts at once
CompileOps == <<"normalModuleFactory", "contextModuleFactory", "beforeCompile">>

\* what follows position k in ops is a prefix of what, or what is a prefix of it
Follows(ops, k, what) ==
    \A j \in 1..Len(what) : k + j <= Len(ops) => ops[k + j] = what[j]
\* the same of the operations b started
FollowsIn(b, k, what) ==
    \A j \in 1..Len(what) : k + j <= Len(b.trace) => b.trace[k + j].op = what[j]

\* C16 as claimed: after a pass asked for another one, the done hook is
\* followed by the additionalPass hook and that by compile(), and the caller's
\* callback is not invoked before a later pass.
C16_AdditionalPassAlways ==
    \A i \in DOMAIN builds :
        LET b == builds[i]
        IN  Recorded(b) =>
                \A k \in Requests(b) :
                    Follows(Ops(b), k, <<"done", "additionalPass">> \o CompileOps)

\* C16, amended: when needAdditionalPass reports true after an emission,
\* compilation.needAdditionalPass is set, the done hook gets the Stats of the
\* current compilation, emitRecords is not called in that pass, and the
\* callback is not invoked while the done hook and the additionalPass hook
\* are at work; when both succeed compile() runs again with a new Compilation,
\* when one of them fails the callback gets that error and the run ends.
C16_AdditionalPass ==
    \A i \in DOMAIN builds :
        LET b == builds[i]
        IN  /\ b.pc \in {"donePass", "additionalPass"} =>
                  /\ ~b.result.called /\ b.cbCount = 0
                  /\ b.compilation.needAdditionalPass
                  /\ b.doneCalls[Len(b.doneCalls)] = NewStats(b.compilation)
            /\ \A j, k \in 1..Len(b.doneCalls) :
                  b.doneCalls[j].compilation = b.doneCalls[k].compilation => j = k
            /\ (b.pc = "make" /\ Recorded(b)) =>
                  /\ b.compilation.id = Cardinality(Requests(b)) + 1
                  /\ ~b.compilation.needAdditionalPass
                  /\ \A k \in 1..Len(b.doneCalls) :
                         b.doneCalls[k].compilation # b.compilation.id
            /\ Recorded(b) =>
                  \A k \in Requests(b) :
                      /\ k > 1 /\ b.trace[k - 1].op = "afterEmit"
                      /\ \/ FollowsIn(b, k, <<"done", "additionalPass">> \o CompileOps)
                         \/ /\ FollowsIn(b, k, <<"done", "callback">>)
                            /\ b.failure = StageError("done")
                            /\ b.result.err = b.failure /\ Len(b.trace) = k + 2
                         \/ /\ FollowsIn(b, k, <<"done", "additionalPass", "callback">>)
                            /\ b.failure = StageError("additionalPass")
                            /\ b.result.err = b.failure /\ Len(b.trace) = k + 3

\* a run whose first pass asked for another one and whose second pass, with
\* a second Compilation, ended the run
C16_Witness ==
    \E i \in DOMAIN builds :
        LET b == builds[i]
        IN  /\ Recorded(b) /\ Requests(b) # {}
            /\ b.result.called /\ b.result.err = NoError
            /\ b.compilation.id = 2
            /\ Len(b.doneCalls) = 2
            /\ b.doneCalls[1].compilation = 1 /\ b.doneCalls[2].compilation = 2
            /\ Cardinality({k \in 1..Len(b.trace) : b.trace[k].op = "emitRecords"}) = 1

(* ----------------------- claims, child compilers ---------------------- *)

\* the taps of hook name as the k-th child of build i sees them
ChildTaps(i, k, name) == TapsOf(State, builds[i].children[k], name)

\* a step in which build i spawns a child
Spawns(i) == Len(builds'[i].children) = Len(builds[i].children) + 1

\* the taps of hook name as the child that a step of build i spawns sees them
\* once the step is over
SpawnedTaps(i, name) == ChildTaps(i, Len(builds[i].children), name)'

\* C17: the child createChildCompiler returns holds, for every hook but
\* make, compile, emit, afterEmit, invalid, done and thisCompilation, the taps
\* of the parent at the time of the call, in their order, in an array of its
\* own: a tap the parent gets later does not show in the child; on the seven
\* hooks it holds no tap that was registered on the parent.
C17_TapsInherited ==
    [][\A i \in Staying :
          /\ Spawns(i) =>
                \A name \in HookNames :
                    IF name \notin NotInherited
                    THEN SpawnedTaps(i, name) = hooks[name]
                    ELSE \A n \in 1..Len(SpawnedTaps(i, name)) :
                             /\ SpawnedTaps(i, name)[n].owner # 0
                             /\ \A other \in HookNames :
                                    \A m \in 1..Len(hooks[other]) :
                                        SpawnedTaps(i, name)[n] # hooks[other][m]
          /\ \A k \in DOMAIN builds[i].children : \A name \in HookNames :
                 ChildTaps(i, k, name)' = ChildTaps(i, k, name)]_vars

\* a child spawned with a plugin when the parent had one tap on afterCompile
\* and one on make; the parent has a second tap on afterCompile since
C17_Witness ==
    \E i \in DOMAIN builds : \E k \in DOMAIN builds[i].children :
        /\ Len(hooks["afterCompile"]) = 2
        /\ Len(hooks["make"]) = 1
        /\ ChildTaps(i, k, "afterCompile") = <<hooks["afterCompile"][1]>>
        /\ ChildTaps(i, k, "make") = <<TapOf(k, "make", 1, "p")>>

\* the position in the parent's list and the content of the records object
\* a child was given when it was spawned
Received(child) ==
    IF child.records.pos < Len(child.found)
    THEN child.found[child.records.pos + 1]
    ELSE {}

\* C18 as claimed: whatever the order of the createChildCompiler calls, the
\* records object of a child is the entry at its spawn index in the list the
\* parent's records hold under its name, an entry found there is reused, and
\* children with distinct (name, index) never share one records object.
C18_RecordsAtIndex ==
    \A i \in DOMAIN builds :
        LET cs == builds[i].children
        IN  /\ \A k \in DOMAIN cs :
                   /\ cs[k].records.linked
                   /\ cs[k].records.name = makePathsRelative(cs[k].name)
                   /\ cs[k].records.pos = cs[k].index
            /\ \A j, k \in DOMAIN cs :
                   (cs[j].name # cs[k].name \/ cs[j].index # cs[k].index) =>
                       (cs[j].records.name # cs[k].records.name
                        \/ cs[j].records.pos # cs[k].records.pos)

\* C19 as claimed: in a build run() starts on a Compiler whose records hold
\* an entry at index 0 under the name, the first child spawned as (name, 0)
\* receives that entry with the content the previous build left.
C19_EntryKeptAcrossRuns ==
    \A i \in DOMAIN builds :
        LET b == builds[i]
        IN  (/\ Recorded(b) /\ b.children # <<>>
             /\ b.children[1].index = 0
             /\ b.inherited[b.children[1].name].list # <<>>) =>
                /\ b.children[1].found # <<>>
                /\ b.children[1].records.pos = 0
                /\ Received(b.children[1]) = b.inherited[b.children[1].name].list[1]

\* C19, amended: the first child a build spawns as (name, 0) receives the
\* entry readRecords of that run left at index 0 under the name. Without
\* recordsInputPath the store was reset: the child receives a new empty
\* entry whatever the previous build left. With a recordsInputPath whose
\* file is read it receives the entry the file holds, a new one if it holds
\* none. Only when the file is missing the store is the one run() found,
\* and the entry of the previous build is reused with its content.
C19_EntryAfterReadRecords ==
    \A i \in DOMAIN builds :
        LET b == builds[i]
            c == b.children[1]
        IN  (Recorded(b) /\ b.children # <<>> /\ b.children[1].index = 0) =>
                /\ c.records.linked /\ c.records.pos = 0
                /\ recordsInputPath = NoPath =>
                       c.found = <<>> /\ Received(c) = {}
                /\ (recordsInputPath # NoPath /\ ArgsOf(b, "readFile") = {}) =>
                       /\ c.found = b.inherited[c.name].list
                       /\ c.found # <<>> => Received(c) = b.inherited[c.name].list[1]
                /\ ArgsOf(b, "readFile") # {} =>
                       \E r \in KnownRecords :
                           /\ c.found = r[c.name].list
                           /\ c.found # <<>> => Received(c) = r[c.name].list[1]

\* the second build of a Compiler whose records file is missing: its child
\* (m, 0) received the entry with the key the child of the first build wrote
C19_Witness ==
    \E i \in DOMAIN builds :
        LET b == builds[i]
        IN  /\ Recorded(b) /\ b.children # <<>>
            /\ calls = 2 /\ recordsInputPath # NoPath
            /\ b.inherited["m"].list # <<>> /\ b.inherited["m"].list[1] = {"k"}
            /\ b.children[1].index = 0
            /\ Received(b.children[1]) = {"k"}

\* C20: a child shares resolverFactory, inputFileSystem, fileTimestamps and
\* contextTimestamps with its parent (the same objects), has no
\* outputFileSystem, has the spawning compilation as parentCompilation, and
\* sees every key of outputOptions on its options.output, over the keys of
\* the parent's; the parent's options and options.output stay as they were.
C20_SharedWithParent ==
    /\ options = WebpackOptions
    /\ \A i \in DOMAIN builds : \A k \in DOMAIN builds[i].children :
           LET c == builds[i].children[k]
           IN  /\ c.resolverFactory = Ref(0, "resolverFactory")
               /\ c.inputFileSystem = Ref(0, "inputFileSystem")
               /\ c.fileTimestamps = Ref(0, "fileTimestamps")
               /\ c.contextTimestamps = Ref(0, "contextTimestamps")
               /\ c.outputFileSystem = Null
               /\ c.parentCompilation = builds[i].compilation.id
               /\ c.options.object # Ref(0, "options")
               /\ c.options.proto = Ref(0, "options")
               /\ c.options.output.object # Ref(0, "options.output")
               /\ \A key \in DOMAIN c.given : OutputOption(State, c, key) = c.given[key]
               /\ \A key \in DOMAIN options.output \ DOMAIN c.given :
                      OutputOption(State, c, key) = options.output[key]

\* a child given a filename and a library: it sees both and the parent's
\* path, the parent still its own filename
C20_Witness ==
    \E i \in DOMAIN builds : \E k \in DOMAIN builds[i].children :
        LET c == builds[i].children[k]
        IN  /\ c.given = [filename |-> "child", library |-> "lib"]
            /\ OutputOption(State, c, "filename") = "child"
            /\ OutputOption(State, c, "library") = "lib"
            /\ OutputOption(State, c, "path") = "o"
            /\ options.output["filename"] = "main"
            /\ c.fileTimestamps = Ref(0, "fileTimestamps")

(* -------------------------- claims, dispatch -------------------------- *)

\* the taps of hook name that build b invoked, in the order of invocation
InvokedOf(b, name) ==
    LET es == SelectSeq(b.dispatch, LAMBDA e : e.tap.hook = name)
    IN  [k \in 1..Len(es) |-> es[k].tap]

\* the position of the first tap whose function returns a defined value, 0
\* when there is none
FirstDefined(taps) ==
    IF \E n \in 1..Len(taps) : Returned(taps[n]) # "undefined"
    THEN CHOOSE n \in 1..Len(taps) :
             /\ Returned(taps[n]) # "undefined"
             /\ \A m \in 1..(n - 1) : Returned(taps[m]) = "undefined"
    ELSE 0

\* a step in which hooks.shouldEmit.call returns to build i
BailStep(i) == builds[i].returned = "none" /\ builds'[i].returned # "none"

\* C21: hooks.shouldEmit.call invokes the taps in the order of registration
\* up to the first one that returns a defined value, which is the result of
\* the call; no tap registered after it is invoked; when no tap returns a
\* defined value all are invoked and the result is undefined.
C21_BailDispatch ==
    [][\A i \in Staying :
          BailStep(i) =>
              LET taps == hooks["shouldEmit"]
                  first == FirstDefined(taps)
              IN  IF first = 0
                  THEN /\ InvokedOf(builds'[i], "shouldEmit") = taps
                       /\ builds'[i].returned = "undefined"
                  ELSE /\ InvokedOf(builds'[i], "shouldEmit") = SubSeq(taps, 1, first)
                       /\ builds'[i].returned = Returned(taps[first])]_vars

\* taps A (returns undefined), B (returns "x") and C: A then B were invoked
\* and the result of the call is "x"
C21_Witness ==
    \E i \in DOMAIN builds :
        /\ Len(hooks["shouldEmit"]) = 3
        /\ Returned(hooks["shouldEmit"][1]) = "undefined"
        /\ Returned(hooks["shouldEmit"][2]) = "x"
        /\ InvokedOf(builds[i], "shouldEmit") = SubSeq(hooks["shouldEmit"], 1, 2)
        /\ builds[i].returned = "x"

\* what build b noted of the taps of hook name it invoked
EntriesOf(b, name) == SelectSeq(b.dispatch, LAMBDA e : e.tap.hook = name)

\* C22: the taps of hooks.beforeRun are invoked in the order of registration,
\* each only once the one before it has called back without error; when a
\* tap fails no later tap is invoked and the hook calls back with that
\* failure, which ends the run; the hook calls back without error only once
\* every tap has.
C22_SeriesDispatch ==
    /\ [](\A i \in DOMAIN builds :
            LET b == builds[i]
                es == EntriesOf(b, "beforeRun")
            IN  Recorded(b) =>
                    /\ Len(es) <= Len(hooks["beforeRun"])
                    /\ \A k \in 1..Len(es) :
                           /\ es[k].tap = hooks["beforeRun"][k]
                           /\ k < Len(es) => es[k].gave = "ok"
                    /\ (es # <<>> /\ es[Len(es)].gave = "fails") =>
                           /\ b.result.called
                           /\ b.result.err = StageError("beforeRun")
                           /\ Ops(b) = <<"beforeRun", "callback">>
                    /\ (es # <<>> /\ es[Len(es)].gave = "pending") =>
                           Ops(b) = <<"beforeRun">>)
    /\ [][\A i \in Staying :
             Starts(i, "run") =>
                 /\ InvokedOf(builds'[i], "beforeRun") = hooks["beforeRun"]
                 /\ \A k \in 1..Len(builds'[i].dispatch) :
                        builds'[i].dispatch[k].gave = "ok"]_vars

\* three taps of which the second fails: the first and the second were
\* invoked, the third never, and the run ended with the failure
C22_Witness ==
    \E i \in DOMAIN builds :
        LET es == EntriesOf(builds[i], "beforeRun")
        IN  /\ Len(hooks["beforeRun"]) = 3
            /\ hooks["beforeRun"][3].by = "ok"
            /\ Len(es) = 2
            /\ es[1].gave = "ok" /\ es[2].gave = "fails"
            /\ builds[i].result.called
            /\ builds[i].result.err = StageError("beforeRun")
            /\ builds[i].pc = "finished"

WorkOf(b) == {o \in b.pending : o.kind \in {"make", "assetMkdirp", "writeFile"}}

\* C24: when the callback of run() has fired no make tap and no asset write
\* that run started is still at work, so that the work of a run accepted
\* afterwards never overlaps with the work of the run before it.
C24_FinishedBeforeNext ==
    /\ \A i \in DOMAIN builds : builds[i].result.called => WorkOf(builds[i]) = {}
    /\ \A i, j \in DOMAIN builds : i < j => WorkOf(builds[i]) = {}

(* ------------------------ claims, the veto ---------------------------- *)

\* C25 as claimed: whenever one of the taps of hooks.shouldEmit returns
\* false, wherever it stands among the taps and whatever the others return,
\* the run does not go on to the emission.
C25_AnyFalseVetoes ==
    [][\A i \in Staying :
          (/\ BailStep(i)
           /\ \E n \in 1..Len(hooks["shouldEmit"]) :
                  Returned(hooks["shouldEmit"][n]) = "false") =>
              ~Starts(i, "emit")]_vars

\* C25, amended: the run skips the emission exactly when the first tap, in
\* the order of registration, that returns a defined value returns false: it
\* then goes on to the done hook and starts no emission operation at all; in
\* every other case, also when a tap registered later would return false,
\* it goes on to the emission.
C25_FirstDefinedVetoes ==
    /\ [][\A i \in Staying :
             BailStep(i) =>
                 LET taps == hooks["shouldEmit"]
                     first == FirstDefined(taps)
                 IN  IF first > 0 /\ Returned(taps[first]) = "false"
                     THEN ~Starts(i, "emit") /\ Starts(i, "done")
                     ELSE Starts(i, "emit") /\ ~Starts(i, "done")]_vars
    /\ [](\A i \in DOMAIN builds :
             (Recorded(builds[i]) /\ builds[i].returned = "false") =>
                 \A k \in 1..Len(builds[i].trace) :
                     builds[i].trace[k].op \notin EmissionOps)

\* a run that ended without emission: the first tap returns undefined, the
\* second false, and a third one, never invoked, would return "x"
C25_Witness ==
    \E i \in DOMAIN builds :
        /\ Len(hooks["shouldEmit"]) = 3
        /\ Returned(hooks["shouldEmit"][1]) = "undefined"
        /\ Returned(hooks["shouldEmit"][2]) = "false"
        /\ Returned(hooks["shouldEmit"][3]) = "x"
        /\ builds[i].returned = "false"
        /\ builds[i].result.called /\ builds[i].result.err = NoError
        /\ \A k \in 1..Len(builds[i].trace) : builds[i].trace[k].op \notin EmissionOps
        /\ \A f \in AssetNames : existsAt[f] = NoPath

(* ------------------- claims, the order of emission ------------------- *)

\* the asset operations of build b that have not called back
AssetOps(b) == {o \in b.pending : o.kind \in {"assetMkdirp", "writeFile"}}

\* C26: in emitAssets the mkdirp of the output directory starts in the
\* callback of the emit hook, when the hook succeeded, and every asset
\* operation after it; the writeFile of an asset whose name holds a separator
\* starts in the callback of the mkdirp of its directory, when that
\* succeeded; afterEmit is called when every asset operation has called back
\* and none has failed, each asset then being on disk unless it was skipped;
\* it is not called in an emission in which emit, a mkdirp or a write failed.
C26_EmissionOrder ==
    /\ [][\A i \in Staying :
             /\ Starts(i, "mkdirp") =>
                    /\ At(i, "emit")
                    /\ builds'[i].failure = NoError
             /\ (Starts(i, "assetMkdirp") \/ Starts(i, "writeFile")) =>
                    LET since == SinceShouldEmit(builds[i])
                    IN  /\ PosOf(since, "emit") > 0
                        /\ PosOf(since, "mkdirp") > PosOf(since, "emit")
             /\ \A f \in AssetNames :
                    (NewWrites(i, f) # {} /\ HasSeparator(TargetFile(f))) =>
                        \E o \in builds[i].pending :
                            /\ o.kind = "assetMkdirp" /\ o.name = f
                            /\ o \notin builds'[i].pending
                            /\ o.live => builds'[i].failure = NoError
                            /\ \A w \in NewWrites(i, f) : w.live = o.live
             /\ Starts(i, "afterEmit") =>
                    /\ AssetOps(builds'[i]) = {}
                    /\ builds'[i].failure = NoError
                    /\ \A f \in builds[i].compilation.assets :
                           \/ emitted'[f] = "false"
                           \/ /\ TargetPath(f) \in DOMAIN disk'
                              /\ disk'[TargetPath(f)] = Content(f)]_vars
    /\ [](\A i \in DOMAIN builds :
             LET b == builds[i]
             IN  (/\ Recorded(b)
                  /\ b.failure.error \in {"emit", "mkdirp", "assetMkdirp", "writeFile"}) =>
                     PosOf(SinceShouldEmit(b), "afterEmit") = 0)

\* an emission that wrote both assets, one after the mkdirp of its directory,
\* and then called afterEmit
C26_Witness ==
    \E i \in DOMAIN builds :
        LET b == builds[i]
        IN  /\ Recorded(b) /\ b.pc = "afterEmit"
            /\ b.compilation.assets = AssetNames
            /\ Cardinality(ArgsOf(b, "writeFile")) = 2
            /\ ArgsOf(b, "assetMkdirp") # {}
            /\ \A f \in AssetNames :
                   /\ TargetPath(f) \in DOMAIN disk
                   /\ disk[TargetPath(f)] = Content(f)

(* ------------------------- claims, progress -------------------------- *)

\* C27: when every operation in progress calls back in the end, and
\* needAdditionalPass asks for another pass at most MaxPasses times, a run()
\* that passed the guard invokes its callback in the end, and the Compiler
\* is then idle, so that the next run() passes the guard.
C27_CallbackEventually ==
    (\E i \in DOMAIN builds : InFlight(builds[i]))
        ~> (/\ ~running
            /\ builds # <<>>
            /\ \A i \in DOMAIN builds :
                   /\ ~InFlight(builds[i])
                   /\ builds[i].result.called
                   /\ builds[i].cbCount = 1)

\* the callback of a run that took an additional pass and wrote its records
C27_Witness ==
    \E i \in DOMAIN builds :
        LET b == builds[i]
        IN  /\ ~running /\ ~InFlight(b) /\ Recorded(b)
            /\ b.result.called /\ b.result.err = NoError
            /\ b.passes = 1
            /\ PosOf(Ops(b), "recordsWriteFile") > 0

(* ---------------------- claims, additional passes -------------------- *)

\* the emissions of build b that came to ask needAdditionalPass
Asked(b) == {k \in 1..Len(b.trace) : b.trace[k].op = "needAdditionalPass"}

\* C28: nothing caps the additional passes. As long as needAdditionalPass
\* asked for another pass after every emission, and nothing failed, the run
\* has gone through compile, emit, done and additionalPass once more for
\* every request, has not reached emitRecords, has not invoked its callback
\* and the Compiler is running; and however many passes the run has taken,
\* the callback of an emission that asks for one more goes to the done hook
\* of the additional pass, not to emitRecords nor to the callback.
C28_NoPassCap ==
    \A i \in DOMAIN builds :
        LET b == builds[i]
        IN  /\ (/\ Recorded(b) /\ b.failure = NoError /\ b.vetoed = 0
                /\ Cardinality(Requests(b)) = Cardinality(Asked(b))) =>
                   /\ ~b.result.called
                   /\ InFlight(b)
                   /\ running
                   /\ \A k \in 1..Len(b.trace) : b.trace[k].op \notin RecordOps
                   /\ b.passes <= Cardinality(Asked(b))
                   /\ b.compilation.id \in {b.passes, b.passes + 1}
                   /\ Len(b.doneCalls) = Cardinality(Asked(b))
                   /\ \A k \in Requests(b) :
                          FollowsIn(b, k, <<"done", "additionalPass">> \o CompileOps)
            /\ At(i, "afterEmit") =>
                   LET after == afterEmitAssets(State, i, NoError, TRUE).builds[i]
                   IN  /\ after.pc = "donePass"
                       /\ ~after.result.called
                       /\ Len(after.doneCalls) = Len(b.doneCalls) + 1
                       /\ after.trace[Len(after.trace)].op = "done"

\* a run whose every emission asked for another pass, after as many passes
\* as the hook may ask for: it is emitting once more and has not called back
C28_Witness ==
    \E i \in DOMAIN builds :
        LET b == builds[i]
        IN  /\ Recorded(b) /\ b.failure = NoError
            /\ Cardinality(Asked(b)) = MaxLoop /\ Cardinality(Requests(b)) = MaxLoop
            /\ MaxLoop >= 3
            /\ b.passes = MaxLoop /\ b.compilation.id = MaxLoop + 1
            /\ b.pc = "afterEmit"
            /\ ~b.result.called /\ running

(* ------------------------------ C29 ----------------------------------- *)

\* the children of build i that exist before and after a step
ChildrenStaying(i) == DOMAIN builds[i].children \cap DOMAIN builds'[i].children

\* build i with its k-th child and its compilation's children and assets set
\* aside
BesideChild(b, k) ==
    [b EXCEPT !.children[k] = NewCompiler(0),
              !.compilation = [@ EXCEPT !.children = <<>>, !.assets = {},
                                        !.keys = <<>>, !.sources = NoSources]]

\* a step of the run of child k of build i touches nothing of the parent
\* Compiler but the children and assets of the parent compilation
ChildRunFrame(i, k) ==
    /\ BesideChild(builds'[i], k) = BesideChild(builds[i], k)
    /\ builds'[i].children[k].running = builds[i].children[k].running
    /\ builds'[i].children[k].records = builds[i].children[k].records
    /\ UNCHANGED <<running, fileTimestamps, contextTimestamps, records,
                   recordsInputPath, recordsOutputPath, watchings, rejected,
                   existsAt, emitted, disk, before, calls, hooks, options>>

\* the compilation of child k is merged into the parent compilation of
\* build i
Merged(i, k) ==
    LET child == builds'[i].children[k].compilation
        parent == builds[i].compilation
        merged == builds'[i].compilation
    IN  /\ merged.children = Append(parent.children, Ref(k, "compilation"))
        /\ merged.assets = parent.assets \cup child.assets
        /\ NamesIn(merged.keys) = merged.assets
        /\ Len(merged.keys) = Cardinality(merged.assets)
        /\ SubSeq(merged.keys, 1, Len(parent.keys)) = parent.keys
        /\ DOMAIN merged.sources = merged.assets
        /\ \A file \in merged.assets :
               merged.sources[file] =
                   IF file \in child.assets THEN child.sources[file]
                   ELSE parent.sources[file]

\* C29: runAsChild runs only the compile of the child: it starts no beforeRun,
\* run, readRecords, shouldEmit, emission, emitRecords or done, and never
\* changes running.  When compile succeeds the child compilation is appended
\* to parentCompilation.children and every asset of the child is copied into
\* parentCompilation.assets, replacing an asset of the same name; when
\* compile fails the error is reported and parentCompilation.children and
\* parentCompilation.assets are left as they were.
C29_RunAsChild ==
    /\ [][\A i \in Staying : \A k \in ChildrenStaying(i) :
             LET was == builds[i].children[k]
                 now == builds'[i].children[k]
             IN  /\ (was.pc = "created" /\ now.pc = "compile") =>
                        /\ ChildRunFrame(i, k)
                        /\ builds'[i].compilation = builds[i].compilation
                        /\ now.trace = <<Ev("compile", <<>>)>>
                 /\ (~was.result.called /\ now.result.called) =>
                        /\ ChildRunFrame(i, k)
                        /\ was.pc = "compile"
                        /\ now.trace = <<Ev("compile", <<>>), Ev("callback", <<>>)>>
                        /\ IF now.result.err = NoError
                           THEN Merged(i, k)
                           ELSE builds'[i].compilation = builds[i].compilation]_vars
    /\ [](\A i \in DOMAIN builds : \A k \in DOMAIN builds[i].children :
             /\ ~builds[i].children[k].running
             /\ \A n \in DOMAIN builds[i].children[k].trace :
                    builds[i].children[k].trace[n].op \in {"compile", "callback"})

\* two children were run below one build: the first left both assets in the
\* parent compilation and the second replaced one of them
C29_Witness ==
    \E i \in DOMAIN builds :
        /\ Len(builds[i].children) = 2
        /\ builds[i].compilation.children =
               <<Ref(1, "compilation"), Ref(2, "compilation")>>
        /\ builds[i].compilation.assets = AssetNames
        /\ builds[i].compilation.sources[<<"b">>] = Source(2, <<"b">>)
        /\ builds[i].compilation.sources[<<"d", "/", "a">>] = Source(1, <<"d", "/", "a">>)

(* ------------------------------ C30 ----------------------------------- *)

\* a writeFile of asset f has been started and has not called back
WriteInFlight(f) ==
    \E i \in DOMAIN builds : \E o \in builds[i].pending :
        o.kind = "writeFile" /\ o.name = f

\* C30: an asset's existsAt is a target path, and the asset counts as written
\* there, only if a writeFile of the asset to that path has completed
\* successfully: once no write of the asset is in flight, an asset whose
\* existsAt is its target path is on disk at that path, so that an emission
\* after a failed write writes the asset again.
C30_ExistsAtOnlyWritten ==
    \A f \in AssetNames :
        (existsAt[f] = TargetPath(f) /\ ~WriteInFlight(f)) =>
            /\ TargetPath(f) \in DOMAIN disk
            /\ disk[TargetPath(f)] = Content(f)

(* ------------------------------ C31 ----------------------------------- *)

\* the writeFile calls of build b that have not called back
WritesOf(b) == {o \in b.pending : o.kind = "writeFile"}

\* C31: in one emitAssets no two writes in progress at once go to the same
\* file path, whatever assets with distinct names the compilation holds, two
\* names that differ only from their first "?" on included.
C31_NoTwoWritesToOnePath ==
    \A i \in DOMAIN builds : \A o, q \in WritesOf(builds[i]) :
        o.path = q.path => o.name = q.name

(* ------------------------------ C32 ----------------------------------- *)

\* child k of build i holds, on hook name, a tap that plugin registered on it
HoldsTapOf(i, k, name, plugin) ==
    \E n \in DOMAIN ChildTaps(i, k, name) :
        /\ ChildTaps(i, k, name)[n].owner = k
        /\ ChildTaps(i, k, name)[n].by = plugin

\* C32: every tap that a plugin handed to createChildCompiler in its plugins
\* argument registers on the child, on a hook the child inherits or on one
\* of the seven others, is registered on the child once createChildCompiler
\* has returned.
C32_PluginTapsKept ==
    \A i \in DOMAIN builds : \A k \in DOMAIN builds[i].children :
        \A n \in DOMAIN builds[i].children[k].plugins :
            LET plugin == builds[i].children[k].plugins[n]
            IN  \A h \in DOMAIN PluginHooks(plugin) :
                    HoldsTapOf(i, k, PluginHooks(plugin)[h], plugin)

====
